---- MODULE Spec2Model ----
(***************************************************************************)
(* Model of the identify-rock edge function                                *)
(* (supabase/functions/identify-rock/index.ts): one request is fanned out  *)
(* to three provider adapters, the handler joins them with                 *)
(* Promise.allSettled, combineMultipleAnalyses merges the fulfilled        *)
(* records and the handler answers with the merged record.                 *)
(***************************************************************************)
EXTENDS Integers, Sequences, FiniteSets, TLC

VARIABLES
    method,        \* req.method
    body,          \* what req.json() yields: the shape of the request body
    keys,          \* providers whose API key is set in Deno.env
    pc,            \* position of the serve handler
    phase,         \* per provider: position of its adapter call
    httpOk,        \* per provider: response.ok of the reply that arrived
    settlement,    \* per provider: the settled state of its promise
    invoked,       \* per provider: how often the adapter function was called
    calls,         \* per provider: how many outbound fetches were issued
    combined,      \* what combineMultipleAnalyses returned (or that it threw)
    response,      \* the HTTP response of the handler
    responses,     \* number of responses sent for the request
    provider,      \* reply decoding on its own: the adapter that decodes
    text,          \* the text found in the provider's 2xx reply
    outcome,       \* what the adapter's promise settles with
    serialized,    \* JSON.stringify of the value the adapter returned
    reparsed,      \* that text decoded again
    chatMethod,    \* rock-chat: req.method
    chatBody,      \* rock-chat: the shape of the request body
    chatContext,   \* rock-chat: what the body's context holds
    chatKey,       \* rock-chat: whether GEMINI_API_KEY is set
    chatPc,        \* rock-chat: position of the serve handler
    chatOk,        \* rock-chat: response.ok of the provider's reply
    chatCalls,     \* rock-chat: number of outbound fetches issued
    chatParts,     \* rock-chat: number of parts in the request sent out
    chatResponse,  \* rock-chat: the HTTP response of the handler
    ytMethod,      \* youtube-rock-videos: req.method
    ytBody,        \* youtube-rock-videos: the shape of the request body
    ytKey,         \* youtube-rock-videos: whether YOUTUBE_API_KEY is set
    ytPc,          \* youtube-rock-videos: position of the serve handler
    ytOk,          \* youtube-rock-videos: ytRes.ok
    ytCalls,       \* youtube-rock-videos: number of outbound fetches issued
    ytResponse,    \* youtube-rock-videos: the HTTP response of the handler
    rvMounted,     \* RockVideos: whether the component is mounted
    rvRockName,    \* RockVideos: the rockName prop
    rvVideos,      \* RockVideos: the videos state
    rvLoading,     \* RockVideos: the loading state
    rvEffects,     \* RockVideos: the effect runs, each with its ignore flag
    cbInput,       \* ChatBot: inputValue
    cbLoading,     \* ChatBot: isLoading
    cbMessages,    \* ChatBot: messages
    cbRequests,    \* ChatBot: the rock-chat requests in flight
    cbSent,        \* ChatBot: number of requests issued so far
    cbToasts       \* ChatBot: number of error toasts shown

handlerVars == <<method, body, keys, pc, phase, httpOk, settlement, invoked, calls,
                 combined, response, responses>>
decoderVars == <<provider, text, outcome, serialized, reparsed>>
chatVars == <<chatMethod, chatBody, chatContext, chatKey, chatPc, chatOk, chatCalls,
              chatParts, chatResponse>>
ytVars == <<ytMethod, ytBody, ytKey, ytPc, ytOk, ytCalls, ytResponse>>
rvVars == <<rvMounted, rvRockName, rvVideos, rvLoading, rvEffects>>
cbVars == <<cbInput, cbLoading, cbMessages, cbRequests, cbSent, cbToasts>>
vars == <<method, body, keys, pc, phase, httpOk, settlement, invoked, calls,
          combined, response, responses, provider, text, outcome, serialized, reparsed,
          chatMethod, chatBody, chatContext, chatKey, chatPc, chatOk, chatCalls,
          chatParts, chatResponse,
          ytMethod, ytBody, ytKey, ytPc, ytOk, ytCalls, ytResponse,
          rvMounted, rvRockName, rvVideos, rvLoading, rvEffects,
          cbInput, cbLoading, cbMessages, cbRequests, cbSent, cbToasts>>

-----------------------------------------------------------------------------
(* Sizes of the model: the confidences the providers report in the sampled  *)
(* replies.                                                                 *)
LowConfidence == 50
MidConfidence == 60
HighConfidence == 90

-----------------------------------------------------------------------------
(* Program constants.                                                       *)
ConfidenceBoost == 10
ConfidenceCeiling == 95
MaxComposition == 5
MaxVisualFeatures == 8
DefaultConfidence == 65
GeminiPlaceholderConfidence == 50
OpenAIPlaceholderConfidence == 25
AnthropicPlaceholderConfidence == 25
StatusOk == 200
StatusError == 500

Providers == <<"Gemini", "OpenAI", "Anthropic">>
ProviderSet == {"Gemini", "OpenAI", "Anthropic"}

-----------------------------------------------------------------------------
(* JavaScript values as they appear in the decoded provider objects: a kind *)
(* and the payload of that kind.  "undef" is an absent property.            *)
Undef == [k |-> "undef", s |-> "", n |-> 0, a |-> <<>>]
Null == [k |-> "null", s |-> "", n |-> 0, a |-> <<>>]
Str(x) == [k |-> "str", s |-> x, n |-> 0, a |-> <<>>]
Num(x) == [k |-> "num", s |-> "", n |-> x, a |-> <<>>]
Arr(x) == [k |-> "arr", s |-> "", n |-> 0, a |-> x]
\* A string built from a fixed text and a joined list (a template literal).
Joined(label, items) == [k |-> "str", s |-> label, n |-> 0, a |-> items]

\* Boolean(v): undefined, null, "" and 0 are falsy; arrays are truthy.
Truthy(v) ==
    CASE v.k = "undef" -> FALSE
      [] v.k = "null" -> FALSE
      [] v.k = "str" -> v.s # ""
      [] v.k = "num" -> v.n # 0
      [] OTHER -> TRUE

\* v || d
OrElse(v, d) == IF Truthy(v) THEN v ELSE d

\* String.prototype.toLowerCase on the strings of the model.
toLowerCase(s) ==
    CASE s = "Granite" -> "granite"
      [] s = "Basalt" -> "basalt"
      [] s = "Gneiss" -> "gneiss"
      [] s = "Igneous" -> "igneous"
      [] s = "Sedimentary" -> "sedimentary"
      [] s = "Metamorphic" -> "metamorphic"
      [] s = "Unknown" -> "unknown"
      [] s = "Unidentified Rock Specimen" -> "unidentified rock specimen"
      [] s = "OpenAI Analysis Unavailable" -> "openai analysis unavailable"
      [] s = "Anthropic Analysis Unavailable" -> "anthropic analysis unavailable"
      [] OTHER -> s

-----------------------------------------------------------------------------
(* Records.                                                                 *)
Rock(rockName, type, composition, hardness, formation, commonLocations, funFact, confidence, visualFeatures) ==
    [rockName |-> rockName, type |-> type, composition |-> composition,
     hardness |-> hardness, formation |-> formation,
     commonLocations |-> commonLocations, funFact |-> funFact,
     confidence |-> confidence, visualFeatures |-> visualFeatures]

\* JSON.parse("{}"): an object without any of the expected properties.
EmptyObject == Rock(Undef, Undef, Undef, Undef, Undef, Undef, Undef, Undef, Undef)

GeminiPlaceholder ==
    Rock(Str("Unidentified Rock Specimen"), Str("Unknown"),
         Arr(<<"Unable to determine from image">>), Str("Unknown"),
         Str("Formation process could not be determined"),
         Arr(<<"Various locations">>),
         Str("Geological specimen requiring further analysis."),
         Num(GeminiPlaceholderConfidence), Arr(<<"Rock specimen visible">>))

OpenAIPlaceholder ==
    Rock(Str("OpenAI Analysis Unavailable"), Str("Unknown"),
         Arr(<<"Unable to determine">>), Str("Unknown"),
         Str("Analysis incomplete"), Arr(<<"Various locations">>),
         Str("OpenAI analysis could not be completed."),
         Num(OpenAIPlaceholderConfidence), Arr(<<"Image processed">>))

AnthropicPlaceholder ==
    Rock(Str("Anthropic Analysis Unavailable"), Str("Unknown"),
         Arr(<<"Unable to determine">>), Str("Unknown"),
         Str("Analysis incomplete"), Arr(<<"Various locations">>),
         Str("Anthropic analysis could not be completed."),
         Num(AnthropicPlaceholderConfidence), Arr(<<"Image processed">>))

Placeholder(p) ==
    CASE p = "Gemini" -> GeminiPlaceholder
      [] p = "OpenAI" -> OpenAIPlaceholder
      [] OTHER -> AnthropicPlaceholder

-----------------------------------------------------------------------------
(* The replies the providers are sampled from.  A provider's free-text      *)
(* fields differ from its siblings', so that the record a field of the      *)
(* result was copied from can be told.                                      *)
HardnessOf(p) ==
    CASE p = "Gemini" -> Str("6-7") [] p = "OpenAI" -> Str("5-6") [] OTHER -> Str("2-3")
FormationOf(p) ==
    CASE p = "Gemini" -> Str("Slow cooling of magma")
      [] p = "OpenAI" -> Str("Rapid cooling of lava")
      [] OTHER -> Str("Compaction of sediment")
LocationsOf(p) ==
    CASE p = "Gemini" -> Arr(<<"Yosemite">>)
      [] p = "OpenAI" -> Arr(<<"Hawaii", "Iceland">>)
      [] OTHER -> Arr(<<"Grand Canyon">>)
FunFactOf(p) ==
    CASE p = "Gemini" -> Str("Used for countertops.")
      [] p = "OpenAI" -> Str("Covers the ocean floor.")
      [] OTHER -> Str("Often holds fossils.")
FeaturesOf(p) ==
    CASE p = "Gemini" -> Arr(<<"Coarse grains", "Pink crystals">>)
      [] p = "OpenAI" -> Arr(<<"Coarse grains", "Dark matrix">>)
      [] OTHER -> Arr(<<"Layering">>)

\* A decoded object with the provider's own free-text fields.
Decoded(p, rockName, type, composition, confidence) ==
    Rock(rockName, type, composition, HardnessOf(p), FormationOf(p),
         LocationsOf(p), FunFactOf(p), confidence, FeaturesOf(p))

ConfidenceSamples == {LowConfidence, MidConfidence, HighConfidence}

\* Names and types reported with every sampled confidence, and those
\* reported with one.
NameTypeSamples == {<<"Granite", "Igneous">>, <<"Basalt", "Sedimentary">>}
NameTypeVariants ==
    {<<"granite", "igneous">>, <<"Basalt", "Igneous">>, <<"Gneiss", "Metamorphic">>}

CompositionSamples ==
    {Undef, Arr(<<"Mica", "Feldspar">>), Arr(<<"Quartz">>),
     Arr(<<"Calcite", "Olivine", "quartz">>), Arr(<<"Quartz", "Quartz">>)}

\* The lists that are also reported with a second confidence.
ReorderedSamples == {Arr(<<"Mica", "Feldspar">>), Arr(<<"Quartz">>)}

\* Reports that differ in name, type and confidence.
LabelReplies(p) ==
    {Decoded(p, Str(nt[1]), Str(nt[2]), Arr(<<"Quartz", "Mica">>), Num(c)) :
        nt \in NameTypeSamples, c \in ConfidenceSamples}
    \cup {Decoded(p, Str(nt[1]), Str(nt[2]), Arr(<<"Quartz", "Mica">>), Num(MidConfidence)) :
            nt \in NameTypeVariants}

\* Reports that differ in composition and confidence.
CompositionReplies(p) ==
    {Decoded(p, Str("Granite"), Str("Igneous"), comp, Num(MidConfidence)) :
        comp \in CompositionSamples}
    \cup {Decoded(p, Str("Granite"), Str("Igneous"), comp, Num(HighConfidence)) :
            comp \in ReorderedSamples}

\* Reports with absent, empty, wrongly typed or out-of-range properties.
OddReplies(p) ==
    {EmptyObject,
     Decoded(p, Num(42), Str("Igneous"), Arr(<<"Quartz">>), Num(MidConfidence)),
     Decoded(p, Str("Granite"), Num(7), Arr(<<"Quartz">>), Num(MidConfidence)),
     Decoded(p, Str(""), Str(""), Arr(<<>>), Num(HighConfidence))}
    \cup {Decoded(p, Str("Granite"), Str("Igneous"), Arr(<<"Quartz", "Mica">>), c) :
            c \in {Undef, Num(0), Num(0 - ConfidenceBoost), Num(0 - LowConfidence),
                   Num(100 + LowConfidence)}}

Objects(p) == LabelReplies(p) \cup CompositionReplies(p) \cup OddReplies(p)

\* What a 2xx reply's text can be: nothing, prose without braces, braces
\* around something that is no JSON, or prose around one JSON object.
Reply(kind, obj) == [kind |-> kind, obj |-> obj]
RepliesOf(p) ==
    {Reply(kind, EmptyObject) : kind \in {"notext", "nobraces", "notjson"}}
    \cup {Reply("object", o) : o \in Objects(p)}

AllReplies == [p \in ProviderSet |-> RepliesOf(p)]
Replies(p) == AllReplies[p]

-----------------------------------------------------------------------------
(* Settlements of the adapter promises.                                     *)
Pending == [status |-> "pending", value |-> EmptyObject, reason |-> ""]
Fulfilled(v) == [status |-> "fulfilled", value |-> v, reason |-> ""]
Rejected(why) == [status |-> "rejected", value |-> EmptyObject, reason |-> why]

KeyMissing(p) ==
    CASE p = "Gemini" -> "Gemini API key not configured"
      [] p = "OpenAI" -> "OpenAI API key not configured"
      [] OTHER -> "Anthropic API key not configured"

AdapterErrors ==
    {KeyMissing(p) : p \in ProviderSet}
    \cup {"base64Image.replace is not a function", "network error",
          "API error: status", "unreadable response body"}

\* An adapter without fallback: whatever the decoding left is returned.
AdapterValue_decodedOnly(p, reply) == reply.obj

\* The text of a 2xx reply turned into the adapter's return value: the
\* object between the first "{" and the last "}" if it decodes, the
\* adapter's placeholder otherwise.
AdapterValue(p, reply) ==
    IF reply.kind = "object" THEN reply.obj ELSE Placeholder(p)

-----------------------------------------------------------------------------
(* The text of a reply and its decoding.  A text is a sequence of pieces:   *)
(* prose without braces, a brace, or one member ("key": literal) of an      *)
(* object; the commas between members are left out.                         *)
NoLit == [j |-> "none", s |-> "", n |-> 0, a |-> <<>>]
StringLit(x) == [j |-> "string", s |-> x, n |-> 0, a |-> <<>>]
NumberLit(x) == [j |-> "number", s |-> "", n |-> x, a |-> <<>>]
\* A number literal beyond the range of a double, such as 1e999.
HugeLit == [j |-> "number", s |-> "1e999", n |-> 0, a |-> <<>>]
NullLit == [j |-> "null", s |-> "", n |-> 0, a |-> <<>>]
ArrayLit(x) == [j |-> "array", s |-> "", n |-> 0, a |-> x]
\* An unquoted word where a literal is expected: no JSON.
BareWord == [j |-> "bare", s |-> "", n |-> 0, a |-> <<>>]

Prose == [t |-> "prose", key |-> "", lit |-> NoLit]
Open == [t |-> "{", key |-> "", lit |-> NoLit]
Close == [t |-> "}", key |-> "", lit |-> NoLit]
Member(key, lit) == [t |-> "member", key |-> key, lit |-> lit]

\* The strings of the model that hold a "{" and, after it, a "}".
WithBraces == {"Forms in {volcanic} regions."}

\* The number JSON.parse returns for a literal beyond the range of a double.
Infinity == [k |-> "num", s |-> "Infinity", n |-> 0, a |-> <<>>]

NoText == [has |-> FALSE, chars |-> <<>>]
Text(chars) == [has |-> TRUE, chars |-> chars]

HasBraces(piece) ==
    piece.t = "member" /\ piece.lit.j = "string" /\ piece.lit.s \in WithBraces
HasOpen(piece) == piece.t = "{" \/ HasBraces(piece)
HasClose(piece) == piece.t = "}" \/ HasBraces(piece)

NoMatch == [found |-> FALSE, from |-> 0, to |-> 0]

\* text.match(/\{[\s\S]*\}/): from the first "{" to the last "}", if the
\* last "}" comes after the first "{".
match(chars) ==
    LET opens == {i \in 1..Len(chars) : HasOpen(chars[i])}
        closes == {i \in 1..Len(chars) : HasClose(chars[i])}
        first == CHOOSE i \in opens : \A h \in opens : i <= h
        last == CHOOSE i \in closes : \A h \in closes : h <= i
    IN IF opens = {} \/ closes = {} THEN NoMatch
       ELSE IF first < last \/ (first = last /\ HasBraces(chars[first]))
            THEN [found |-> TRUE, from |-> first, to |-> last]
            ELSE NoMatch

\* Whether JSON.parse accepts the matched substring: an object's braces
\* around members with well-formed literals.  A match that begins or ends
\* inside a string literal is no JSON.
IsJSON(chars, m) ==
    /\ chars[m.from].t = "{"
    /\ chars[m.to].t = "}"
    /\ \A i \in (m.from + 1)..(m.to - 1) : chars[i].t = "member" /\ chars[i].lit.j # "bare"

\* The value of a literal.
FromLiteral(lit) ==
    CASE lit.j = "string" -> Str(lit.s)
      [] lit.j = "number" -> (IF lit.s = "1e999" THEN Infinity ELSE Num(lit.n))
      [] lit.j = "array" -> Arr(lit.a)
      [] OTHER -> Null

FieldOrder ==
    <<"rockName", "type", "composition", "hardness", "formation", "commonLocations",
      "funFact", "confidence", "visualFeatures">>

\* JSON.parse(jsonMatch[0]): every property has the value of the last member
\* with its key; a key without member is an absent property.
JSONparse(chars, m) ==
    LET inside == (m.from + 1)..(m.to - 1)
        valueOf(f) ==
            LET at == {i \in inside : chars[i].key = f}
            IN IF at = {} THEN Undef
               ELSE FromLiteral(chars[CHOOSE i \in at : \A h \in at : h <= i].lit)
    IN Rock(valueOf("rockName"), valueOf("type"), valueOf("composition"),
            valueOf("hardness"), valueOf("formation"), valueOf("commonLocations"),
            valueOf("funFact"), valueOf("confidence"), valueOf("visualFeatures"))

\* if (text) { const jsonMatch = text.match(...); if (jsonMatch) { try {
\* return JSON.parse(jsonMatch[0]) } catch ... } }: what the text amounts to.
Decode(txt) ==
    IF ~txt.has \/ txt.chars = <<>> THEN Reply("notext", EmptyObject)
    ELSE IF ~match(txt.chars).found THEN Reply("nobraces", EmptyObject)
    ELSE IF ~IsJSON(txt.chars, match(txt.chars)) THEN Reply("notjson", EmptyObject)
    ELSE Reply("object", JSONparse(txt.chars, match(txt.chars)))

\* The literal JSON.stringify writes for a value: a number that is not
\* finite is written as null.
ToLiteral(v) ==
    CASE v.k = "str" -> StringLit(v.s)
      [] v.k = "num" -> (IF v.s = "Infinity" THEN NullLit ELSE NumberLit(v.n))
      [] v.k = "arr" -> ArrayLit(v.a)
      [] OTHER -> NullLit

\* JSON.stringify(record): the properties in their order, an undefined
\* property left out.
RECURSIVE Members(_, _)
Members(rec, i) ==
    IF i > Len(FieldOrder) THEN <<>>
    ELSE (IF rec[FieldOrder[i]].k = "undef" THEN <<>>
          ELSE <<Member(FieldOrder[i], ToLiteral(rec[FieldOrder[i]]))>>)
         \o Members(rec, i + 1)

JSONstringify(rec) == Text(<<Open>> \o Members(rec, 1) \o <<Close>>)

\* The texts the decoder is tried on.
GraniteMembers ==
    <<Member("rockName", StringLit("Granite")), Member("type", StringLit("Igneous")),
      Member("composition", ArrayLit(<<"Quartz", "Mica">>)),
      Member("hardness", StringLit("6-7")),
      Member("formation", StringLit("Slow cooling of magma")),
      Member("commonLocations", ArrayLit(<<"Yosemite">>)),
      Member("funFact", StringLit("Used for countertops.")),
      Member("confidence", NumberLit(HighConfidence)),
      Member("visualFeatures", ArrayLit(<<"Coarse grains">>))>>

WithConfidence(lit) ==
    [i \in 1..Len(GraniteMembers) |->
        IF GraniteMembers[i].key = "confidence" THEN Member("confidence", lit)
        ELSE GraniteMembers[i]]

MemberSamples ==
    {GraniteMembers, <<>>,
     <<Member("rockName", NumberLit(42)), Member("confidence", NumberLit(MidConfidence))>>,
     <<Member("rockName", StringLit("Basalt")), Member("composition", StringLit("Olivine")),
       Member("confidence", StringLit("high"))>>,
     <<Member("rockName", NullLit), Member("hardness", NullLit),
       Member("confidence", NumberLit(LowConfidence))>>,
     <<Member("rockName", StringLit("Basalt")), Member("rockName", StringLit("Gneiss"))>>,
     <<Member("rockName", StringLit("Basalt")),
       Member("funFact", StringLit("Forms in {volcanic} regions."))>>,
     WithConfidence(NumberLit(0 - LowConfidence)),
     WithConfidence(NumberLit(100 + LowConfidence)),
     WithConfidence(HugeLit)}

Texts ==
    {NoText, Text(<<>>), Text(<<Prose>>), Text(<<Prose, Open, Prose>>),
     Text(<<Close, Prose, Open>>), Text(<<Open, Prose, Close>>),
     Text(<<Open, Member("rockName", BareWord), Close>>),
     Text(<<Prose, Member("funFact", StringLit("Forms in {volcanic} regions."))>>),
     Text(<<Open, Prose, Close, Prose, Open>> \o GraniteMembers \o <<Close>>),
     Text(<<Open>> \o GraniteMembers \o <<Close, Prose, Open, Close>>)}
    \cup {Text(<<Open>> \o ms \o <<Close>>) : ms \in MemberSamples}
    \cup {Text(<<Prose, Open>> \o ms \o <<Close, Prose>>) : ms \in MemberSamples}

-----------------------------------------------------------------------------
(* combineMultipleAnalyses and findConsensus.                               *)

\* analyses.push({ ...result.value, source }) for every fulfilled settlement
\* with a truthy value, Gemini first, then OpenAI, then Anthropic.
Tagged(p, v) == [source |-> p, rec |-> v]

\* Every settlement is pushed, a rejected one with the empty value it has.
RECURSIVE Analyses_everySettled(_, _)
Analyses_everySettled(setl, i) ==
    IF i > Len(Providers) THEN <<>>
    ELSE <<Tagged(Providers[i], setl[Providers[i]].value)>>
         \o Analyses_everySettled(setl, i + 1)

RECURSIVE Analyses(_, _)
Analyses(setl, i) ==
    IF i > Len(Providers) THEN <<>>
    ELSE LET p == Providers[i]
         IN (IF setl[p].status = "fulfilled"
             THEN <<Tagged(p, setl[p].value)>> ELSE <<>>)
            \o Analyses(setl, i + 1)

\* An absent confidence counted as the handler's default.
ConfidenceOrZero_orDefault(a) == OrElse(a.rec.confidence, Num(DefaultConfidence)).n

\* (a.confidence || 0)
ConfidenceOrZero(a) == OrElse(a.rec.confidence, Num(0)).n

\* Op applied to the value of v: v is evaluated once, as a call evaluates
\* its argument before the body runs.
Call(Op(_), v) == CHOOSE r \in {Op(x) : x \in {v}} : TRUE

\* The comparator (a, b) => (b.confidence || 0) - (a.confidence || 0) is
\* negative: a goes before b.
Before(a, b) == ConfidenceOrZero(b) - ConfidenceOrZero(a) < 0

\* A sort that puts the later of two elements first when the comparator
\* says neither way.
StableSorted_lastFirst(seq) ==
    LET precedes(i, j) ==
            \/ Before(seq[i], seq[j])
            \/ ~Before(seq[j], seq[i]) /\ i > j
        rank(i) == 1 + Cardinality({j \in 1..Len(seq) : precedes(j, i)})
    IN [r \in 1..Len(seq) |-> seq[CHOOSE i \in 1..Len(seq) : rank(i) = r]]

\* A stable sort: seq[i] goes before seq[j] if the comparator says so, or if
\* it says neither way and i < j.
StableSorted(seq) ==
    LET precedes(i, j) ==
            \/ Before(seq[i], seq[j])
            \/ ~Before(seq[j], seq[i]) /\ i < j
        rank(i) == 1 + Cardinality({j \in 1..Len(seq) : precedes(j, i)})
    IN [r \in 1..Len(seq) |-> seq[CHOOSE i \in 1..Len(seq) : rank(i) = r]]

\* The array left as it was pushed.
SortByConfidence_unsorted(seq) == seq

\* analyses.sort((a, b) => (b.confidence || 0) - (a.confidence || 0)):
\* stable, descending, in place.
SortByConfidence(seq) == Call(StableSorted, seq)

\* The insertion order of a Set: the first occurrence of every value
\* (compared with ===), in the order of the array.
FirstOccurrences(items) ==
    Call(LAMBDA firsts :
           [r \in 1..Cardinality(firsts) |->
              items[CHOOSE i \in firsts : Cardinality({j \in firsts : j <= i}) = r]],
         {i \in 1..Len(items) : \A j \in 1..(i - 1) : items[j] # items[i]})

\* The array spread as it is, duplicates included.
Unique_keepAll(items) == items

\* [...new Set(items)]
Unique(items) == Call(FirstOccurrences, items)

\* items.slice(0, n)
Slice(items, n) == SubSeq(items, 1, IF Len(items) < n THEN Len(items) ELSE n)

\* analyses.flatMap(a => a.composition || [])
RECURSIVE FlatComposition(_, _)
FlatComposition(as, i) ==
    IF i > Len(as) THEN <<>>
    ELSE OrElse(as[i].rec.composition, Arr(<<>>)).a \o FlatComposition(as, i + 1)

\* analyses.flatMap(a => a.visualFeatures || [])
RECURSIVE FlatVisualFeatures(_, _)
FlatVisualFeatures(as, i) ==
    IF i > Len(as) THEN <<>>
    ELSE OrElse(as[i].rec.visualFeatures, Arr(<<>>)).a \o FlatVisualFeatures(as, i + 1)

\* A sum that starts from a count kept from one call to the next instead
\* of 0.
RECURSIVE SumConfidence_carried(_, _)
SumConfidence_carried(as, i) ==
    IF i > Len(as) THEN responses
    ELSE ConfidenceOrZero(as[i]) + SumConfidence_carried(as, i + 1)

\* analyses.reduce((sum, a) => sum + (a.confidence || 0), 0)
RECURSIVE SumConfidence(_, _)
SumConfidence(as, i) ==
    IF i > Len(as) THEN 0
    ELSE ConfidenceOrZero(as[i]) + SumConfidence(as, i + 1)

\* Math.round(sum / count): the nearest integer, halves towards +Infinity.
RoundedMean(sum, count) == (2 * sum + count) \div (2 * count)

\* Math.min(a, b)
Min(a, b) == IF a < b THEN a ELSE b

\* list.filter(Boolean)
FilterTruthy(items) == SelectSeq(items, Truthy)

\* item.toLowerCase() raises a TypeError for an item that is no string.
ConsensusThrows(items) == \E i \in 1..Len(items) : items[i].k # "str"

\* The counts object after the reduce, as its entries in insertion order:
\* one per lower-cased spelling, with the number of items spelled so.
CountsOf(items) ==
    Call(LAMBDA keyOrder :
           [j \in 1..Len(keyOrder) |->
              [key |-> keyOrder[j],
               count |-> Cardinality({i \in 1..Len(items) :
                                        toLowerCase(items[i].s) = keyOrder[j]})]],
         Unique([i \in 1..Len(items) |-> toLowerCase(items[i].s)]))

\* Math.max(...Object.values(counts)); -Infinity without values, which is
\* below every count as -1 is.
MaxCount(counts) ==
    IF Len(counts) = 0 THEN 0 - 1
    ELSE CHOOSE m \in {counts[j].count : j \in 1..Len(counts)} :
           \A j \in 1..Len(counts) : counts[j].count <= m

\* Every item has that spelling (maxCount > 2 among three).
IsConsensus_unanimous(count) == count > 2

\* More than one (maxCount > 1).
IsConsensus(count) == count > 1

\* The body of findConsensus for string items: the first item spelled like
\* the first key that has the maximal count, if that count is above one,
\* null otherwise.
ConsensusOf(items) ==
    Call(LAMBDA counts :
      Call(LAMBDA maxCount :
             IF IsConsensus(maxCount)
             THEN LET consensusKey ==
                          counts[CHOOSE j \in 1..Len(counts) :
                                   /\ counts[j].count = maxCount
                                   /\ \A h \in 1..(j - 1) : counts[h].count # maxCount].key
                  IN items[CHOOSE i \in 1..Len(items) :
                             /\ toLowerCase(items[i].s) = consensusKey
                             /\ \A h \in 1..(i - 1) : toLowerCase(items[h].s) # consensusKey]
             ELSE Null,
           MaxCount(counts)),
      CountsOf(items))

findConsensus(items) == Call(ConsensusOf, items)

\* The record of the branch analyses.length === 0.
NoAnalysis ==
    [rockName |-> Str("Analysis Failed"), type |-> Str("Unknown"),
     composition |-> Arr(<<"Unable to determine">>), hardness |-> Str("Unknown"),
     formation |-> Str("All AI analyses failed"),
     commonLocations |-> Arr(<<"Unknown">>),
     funFact |-> Str("Please try uploading a clearer image."),
     confidence |-> Num(0), visualFeatures |-> Arr(<<>>),
     analysisSource |-> Joined("No successful analysis", <<>>)]

NoRecord ==
    [rockName |-> Undef, type |-> Undef, composition |-> Undef, hardness |-> Undef,
     formation |-> Undef, commonLocations |-> Undef, funFact |-> Undef,
     confidence |-> Undef, visualFeatures |-> Undef, analysisSource |-> Undef]

Returned(rec) == [state |-> "returned", rec |-> rec]
Threw == [state |-> "threw", rec |-> NoRecord]
NotCalled == [state |-> "none", rec |-> NoRecord]

\* combineMultipleAnalyses from the sort on: analyses is the sorted array.
Merge(analyses) ==
    LET bestAnalysis == analyses[1].rec
        uniqueVisualFeatures == Unique(FlatVisualFeatures(analyses, 1))
        uniqueComposition == Unique(FlatComposition(analyses, 1))
        avgConfidence == RoundedMean(SumConfidence(analyses, 1), Len(analyses))
    IN Call(LAMBDA rockNames :
         Call(LAMBDA types :
                IF ConsensusThrows(rockNames) \/ ConsensusThrows(types) THEN Threw
                ELSE Returned(
                  [rockName |-> OrElse(findConsensus(rockNames), bestAnalysis.rockName),
                   type |-> OrElse(findConsensus(types), bestAnalysis.type),
                   composition |-> Arr(Slice(uniqueComposition, MaxComposition)),
                   hardness |-> bestAnalysis.hardness,
                   formation |-> bestAnalysis.formation,
                   commonLocations |-> bestAnalysis.commonLocations,
                   funFact |-> bestAnalysis.funFact,
                   confidence |->
                       Num(Min(avgConfidence + ConfidenceBoost, ConfidenceCeiling)),
                   visualFeatures |->
                       Arr(Slice(uniqueVisualFeatures, MaxVisualFeatures)),
                   analysisSource |->
                       Joined("Multi-AI Analysis",
                              [i \in 1..Len(analyses) |-> analyses[i].source])]),
              FilterTruthy([i \in 1..Len(analyses) |-> analyses[i].rec.type])),
         FilterTruthy([i \in 1..Len(analyses) |-> analyses[i].rec.rockName]))

combineMultipleAnalyses(setl) ==
    LET pushed == Analyses(setl, 1)
    IN IF Len(pushed) = 0 THEN Returned(NoAnalysis)
       ELSE Call(Merge, SortByConfidence(pushed))

-----------------------------------------------------------------------------
(* The serve handler.                                                       *)

\* The combined analysis sent as it is, without defaults.
Result_asCombined(c) == c

\* const result = { rockName: combinedAnalysis.rockName || 'Unknown Rock', ... }
Result(c) ==
    [rockName |-> OrElse(c.rockName, Str("Unknown Rock")),
     type |-> OrElse(c.type, Str("Unknown")),
     composition |-> OrElse(c.composition, Arr(<<"Unable to determine">>)),
     hardness |-> OrElse(c.hardness, Str("Unknown")),
     formation |-> OrElse(c.formation, Str("Unable to determine formation process")),
     commonLocations |-> OrElse(c.commonLocations, Arr(<<"Unknown">>)),
     funFact |-> OrElse(c.funFact,
                        Str("Please try uploading a clearer image for better identification.")),
     confidence |-> OrElse(c.confidence, Num(DefaultConfidence)),
     visualFeatures |-> OrElse(c.visualFeatures, Arr(<<>>)),
     analysisSource |-> OrElse(c.analysisSource, Joined("Multi-AI Analysis", <<>>))]

\* The record of the catch block; it has no analysisSource.
ErrorRecord ==
    [rockName |-> Str("Unknown Rock"), type |-> Str("Unknown"),
     composition |-> Arr(<<"Unable to determine">>), hardness |-> Str("Unknown"),
     formation |-> Str("Unable to determine formation process"),
     commonLocations |-> Arr(<<"Unknown">>),
     funFact |-> Str("Please try uploading a clearer image for better identification."),
     confidence |-> Num(0), visualFeatures |-> Arr(<<>>), analysisSource |-> Undef]

NoResponse == [status |-> 0, kind |-> "none", error |-> "", record |-> NoRecord, cors |-> FALSE]

\* new Response(null, { headers: corsHeaders })
PreflightResponse ==
    [status |-> StatusOk, kind |-> "empty", error |-> "", record |-> NoRecord, cors |-> TRUE]

\* new Response(JSON.stringify(result), { headers: { ...corsHeaders, ... } })
RecordResponse(rec) ==
    [status |-> StatusOk, kind |-> "record", error |-> "", record |-> rec, cors |-> TRUE]

\* The response of the catch block.
ErrorResponse(message) ==
    [status |-> StatusError, kind |-> "error", error |-> message,
     record |-> ErrorRecord, cors |-> TRUE]

\* An adapter that sends its request without looking for the key.
StartAdapter_noKeyCheck(p, img, ks) ==
    IF img = "nonstring"
    THEN [phase |-> "settled",
          settlement |-> Rejected("base64Image.replace is not a function"),
          calls |-> 0]
    ELSE [phase |-> "fetching", settlement |-> Pending, calls |-> 1]

\* analyzeRockWith<Provider>(image) up to its first await: the key check, the
\* removal of the data-URL prefix and the start of the fetch.
StartAdapter(p, img, ks) ==
    IF p \notin ks
    THEN [phase |-> "settled", settlement |-> Rejected(KeyMissing(p)), calls |-> 0]
    ELSE IF img = "nonstring"
         THEN [phase |-> "settled",
               settlement |-> Rejected("base64Image.replace is not a function"),
               calls |-> 0]
         ELSE [phase |-> "fetching", settlement |-> Pending, calls |-> 1]

\* Promise.race-like join: resumes as soon as some promise has settled.
AllSettled_first(setl) ==
    [ready |-> \E p \in ProviderSet : setl[p].status # "pending",
     throws |-> FALSE, reason |-> ""]

\* A join that waits for three fulfilments and so never resumes after a
\* rejection.
AllSettled_fulfilledOnly(setl) ==
    [ready |-> \A p \in ProviderSet : setl[p].status = "fulfilled",
     throws |-> FALSE, reason |-> ""]

\* Promise.all: resumes once all are fulfilled, and throws the reason of a
\* rejection as soon as there is one.
AllSettled_all(setl) ==
    LET rejected == {p \in ProviderSet : setl[p].status = "rejected"}
    IN [ready |-> rejected # {} \/ \A p \in ProviderSet : setl[p].status = "fulfilled",
        throws |-> rejected # {},
        reason |-> IF rejected = {} THEN ""
                   ELSE setl[CHOOSE p \in rejected : TRUE].reason]

\* await Promise.allSettled([...]): resumes once no promise is pending, and
\* never throws.
AllSettled(setl) ==
    [ready |-> \A p \in ProviderSet : setl[p].status # "pending",
     throws |-> FALSE, reason |-> ""]

\* The place of a provider among the promises passed to Promise.allSettled.
IndexOf(p) == CHOOSE i \in 1..Len(Providers) : Providers[i] = p

\* The orders in which the three promises can have settled: a promise that
\* was rejected before its outbound call was issued settled during the
\* dispatch, in the order of the dispatch; the outbound calls complete
\* after that, in any order.
CompletionOrders(cs) ==
    {o \in [1..Len(Providers) -> ProviderSet] :
        /\ \A i, j \in 1..Len(Providers) : i # j => o[i] # o[j]
        /\ \A i, j \in 1..Len(Providers) :
              (i < j /\ cs[o[j]] = 0) => (cs[o[i]] = 0 /\ IndexOf(o[i]) < IndexOf(o[j]))}

\* An array that holds the settlements in the order in which they happened.
SettledResults_byCompletion(setl, order) ==
    [i \in 1..Len(Providers) |-> setl[order[i]]]

\* The array Promise.allSettled resolves with: the settlement of the i-th
\* promise passed is at place i, whatever the order of the settlements was.
SettledResults(setl, order) ==
    [i \in 1..Len(Providers) |-> setl[Providers[i]]]

\* const [geminiResult, openaiResult, anthropicResult] = ..., passed on as
\* combineMultipleAnalyses(geminiResult, openaiResult, anthropicResult).
Destructured(results) == [p \in ProviderSet |-> results[IndexOf(p)]]

\* The functions and components other than the one that is running: each is
\* at rest, with nothing received, nothing sent and nothing shown.
NoChatResponse ==
    [status |-> 0, kind |-> "none", response |-> Undef, error |-> Undef, cors |-> FALSE]

NoVideosResponse ==
    [status |-> 0, kind |-> "none", error |-> Undef, videos |-> Undef,
     cors |-> FALSE, cached |-> FALSE]

HandlerIdle ==
    /\ method = "POST"
    /\ body = "image"
    /\ keys = ProviderSet
    /\ pc = "off"
    /\ phase = [p \in ProviderSet |-> "idle"]
    /\ httpOk = [p \in ProviderSet |-> FALSE]
    /\ settlement = [p \in ProviderSet |-> Pending]
    /\ invoked = [p \in ProviderSet |-> 0]
    /\ calls = [p \in ProviderSet |-> 0]
    /\ combined = NotCalled
    /\ response = NoResponse
    /\ responses = 0

DecoderIdle ==
    /\ provider = "Gemini"
    /\ text = NoText
    /\ outcome = Pending
    /\ serialized = NoText
    /\ reparsed = Pending

ChatIdle ==
    /\ chatMethod = "POST"
    /\ chatBody = "message"
    /\ chatContext = "none"
    /\ chatKey = TRUE
    /\ chatPc = "off"
    /\ chatOk = FALSE
    /\ chatCalls = 0
    /\ chatParts = 0
    /\ chatResponse = NoChatResponse

VideosIdle ==
    /\ ytMethod = "POST"
    /\ ytBody = "query"
    /\ ytKey = TRUE
    /\ ytPc = "off"
    /\ ytOk = FALSE
    /\ ytCalls = 0
    /\ ytResponse = NoVideosResponse

RockVideosIdle ==
    /\ rvMounted = FALSE
    /\ rvRockName = ""
    /\ rvVideos = <<>>
    /\ rvLoading = TRUE
    /\ rvEffects = <<>>

ChatBotIdle ==
    /\ cbInput = ""
    /\ cbLoading = FALSE
    /\ cbMessages = <<>>
    /\ cbRequests = <<>>
    /\ cbSent = 0
    /\ cbToasts = 0

Bodies == {"invalid", "noimage", "emptyimage", "image", "nonstring"}

Init ==
    /\ method \in {"OPTIONS", "POST"}
    /\ body \in Bodies
    /\ keys \in SUBSET ProviderSet
    /\ pc = "recv"
    /\ phase = [p \in ProviderSet |-> "idle"]
    /\ httpOk = [p \in ProviderSet |-> FALSE]
    /\ settlement = [p \in ProviderSet |-> Pending]
    /\ invoked = [p \in ProviderSet |-> 0]
    /\ calls = [p \in ProviderSet |-> 0]
    /\ combined = NotCalled
    /\ response = NoResponse
    /\ responses = 0
    /\ DecoderIdle /\ ChatIdle /\ VideosIdle /\ RockVideosIdle /\ ChatBotIdle

\* The handler is entered: a preflight is answered at once, any other
\* request waits for its body.
Receive ==
    /\ pc = "recv"
    /\ IF method = "OPTIONS"
       THEN /\ pc' = "done"
            /\ response' = PreflightResponse
            /\ responses' = responses + 1
       ELSE /\ pc' = "body"
            /\ UNCHANGED <<response, responses>>
    /\ UNCHANGED <<method, body, keys, phase, httpOk, settlement, invoked, calls, combined>>
    /\ UNCHANGED <<decoderVars, chatVars, ytVars, rvVars, cbVars>>

\* req.json() has settled: an unreadable body or a missing image goes to the
\* catch block, otherwise the three adapters are called one after the other
\* and the handler waits for the join.
BodyRead ==
    /\ pc = "body"
    /\ IF body \in {"invalid", "noimage", "emptyimage"}
       THEN /\ pc' = "done"
            /\ response' = ErrorResponse(IF body = "invalid" THEN "Unexpected token in JSON"
                                         ELSE "No image provided")
            /\ responses' = responses + 1
            /\ UNCHANGED <<phase, settlement, invoked, calls>>
       ELSE /\ pc' = "awaitAll"
            /\ phase' = [p \in ProviderSet |-> StartAdapter(p, body, keys).phase]
            /\ settlement' = [p \in ProviderSet |-> StartAdapter(p, body, keys).settlement]
            /\ calls' = [p \in ProviderSet |-> calls[p] + StartAdapter(p, body, keys).calls]
            /\ invoked' = [p \in ProviderSet |-> invoked[p] + 1]
            /\ UNCHANGED <<response, responses>>
    /\ UNCHANGED <<method, body, keys, httpOk, combined>>
    /\ UNCHANGED <<decoderVars, chatVars, ytVars, rvVars, cbVars>>

\* An adapter that sends its request once more when the network failed.
FetchSettles_retry(p) ==
    /\ phase[p] = "fetching"
    /\ \/ /\ calls[p] < 2
          /\ calls' = [calls EXCEPT ![p] = calls[p] + 1]
          /\ UNCHANGED <<phase, settlement, httpOk>>
       \/ /\ calls[p] >= 2
          /\ phase' = [phase EXCEPT ![p] = "settled"]
          /\ settlement' = [settlement EXCEPT ![p] = Rejected("network error")]
          /\ UNCHANGED <<httpOk, calls>>
       \/ /\ \E ok \in BOOLEAN : httpOk' = [httpOk EXCEPT ![p] = ok]
          /\ phase' = [phase EXCEPT ![p] = "reading"]
          /\ UNCHANGED <<settlement, calls>>
    /\ UNCHANGED <<method, body, keys, pc, invoked, combined, response, responses>>
    /\ UNCHANGED <<decoderVars, chatVars, ytVars, rvVars, cbVars>>

\* await fetch(...) of one adapter settles: the network fails, or a reply
\* with some status arrives and its body is awaited.
FetchSettles(p) ==
    /\ phase[p] = "fetching"
    /\ \/ /\ phase' = [phase EXCEPT ![p] = "settled"]
          /\ settlement' = [settlement EXCEPT ![p] = Rejected("network error")]
          /\ UNCHANGED httpOk
       \/ /\ \E ok \in BOOLEAN : httpOk' = [httpOk EXCEPT ![p] = ok]
          /\ phase' = [phase EXCEPT ![p] = "reading"]
          /\ UNCHANGED settlement
    /\ UNCHANGED <<method, body, keys, pc, invoked, calls, combined, response, responses>>
    /\ UNCHANGED <<decoderVars, chatVars, ytVars, rvVars, cbVars>>

\* await response.json() of one adapter settles: the body is unreadable, the
\* status is not 2xx, or the text of the reply is turned into the return value.
BodySettles(p) ==
    /\ phase[p] = "reading"
    /\ phase' = [phase EXCEPT ![p] = "settled"]
    /\ \/ settlement' = [settlement EXCEPT ![p] = Rejected("unreadable response body")]
       \/ /\ ~httpOk[p]
          /\ settlement' = [settlement EXCEPT ![p] = Rejected("API error: status")]
       \/ /\ httpOk[p]
          /\ \E reply \in Replies(p) :
                settlement' = [settlement EXCEPT ![p] = Fulfilled(AdapterValue(p, reply))]
    /\ UNCHANGED <<method, body, keys, pc, httpOk, invoked, calls, combined, response, responses>>
    /\ UNCHANGED <<decoderVars, chatVars, ytVars, rvVars, cbVars>>

\* The join resumes the handler: the settlements are combined, the result is
\* completed with defaults and sent; an exception on the way is answered by
\* the catch block.
Join ==
    /\ pc = "awaitAll"
    /\ AllSettled(settlement).ready
    /\ pc' = "done"
    /\ responses' = responses + 1
    /\ IF AllSettled(settlement).throws
       THEN /\ response' = ErrorResponse(AllSettled(settlement).reason)
            /\ UNCHANGED combined
       ELSE \E results \in {SettledResults(settlement, o) : o \in CompletionOrders(calls)} :
            /\ combined' = combineMultipleAnalyses(Destructured(results))
            /\ response' = IF combined'.state = "threw"
                           THEN ErrorResponse("item.toLowerCase is not a function")
                           ELSE RecordResponse(Result(combined'.rec))
    /\ UNCHANGED <<method, body, keys, phase, httpOk, settlement, invoked, calls>>
    /\ UNCHANGED <<decoderVars, chatVars, ytVars, rvVars, cbVars>>

Next ==
    \/ Receive
    \/ BodyRead
    \/ \E p \in ProviderSet : FetchSettles(p)
    \/ \E p \in ProviderSet : BodySettles(p)
    \/ Join

Spec == Init /\ [][Next]_vars

\* The event loop runs a continuation that is ready, and an outbound call
\* that is pending settles: the request does not stop while a step is left.
FairSpec == Spec /\ WF_vars(Next)

-----------------------------------------------------------------------------
(* Reply decoding on its own: an adapter whose provider answered 2xx turns  *)
(* the text of the reply into its return value; the value is then written   *)
(* as JSON and that text is decoded once more.                              *)
DecoderInit ==
    /\ method = "POST"
    /\ body = "image"
    /\ keys = ProviderSet
    /\ pc = "recv"
    /\ phase = [p \in ProviderSet |-> "idle"]
    /\ httpOk = [p \in ProviderSet |-> FALSE]
    /\ settlement = [p \in ProviderSet |-> Pending]
    /\ invoked = [p \in ProviderSet |-> 0]
    /\ calls = [p \in ProviderSet |-> 0]
    /\ combined = NotCalled
    /\ response = NoResponse
    /\ responses = 0
    /\ provider \in ProviderSet
    /\ text \in Texts
    /\ outcome = Pending
    /\ serialized = NoText
    /\ reparsed = Pending
    /\ ChatIdle /\ VideosIdle /\ RockVideosIdle /\ ChatBotIdle

\* The adapter from the text of the reply to its return: the decoded object
\* or the placeholder.
AdapterReturns ==
    /\ outcome = Pending
    /\ outcome' = Fulfilled(AdapterValue(provider, Decode(text)))
    /\ UNCHANGED <<provider, text, serialized, reparsed>>
    /\ UNCHANGED <<handlerVars, chatVars, ytVars, rvVars, cbVars>>

\* JSON.stringify of the returned value.
Serialize ==
    /\ outcome.status = "fulfilled"
    /\ serialized = NoText
    /\ serialized' = JSONstringify(outcome.value)
    /\ UNCHANGED <<provider, text, outcome, reparsed>>
    /\ UNCHANGED <<handlerVars, chatVars, ytVars, rvVars, cbVars>>

\* The written text goes through the adapter's decoding again.
Reparse ==
    /\ serialized # NoText
    /\ reparsed = Pending
    /\ reparsed' = Fulfilled(AdapterValue(provider, Decode(serialized)))
    /\ UNCHANGED <<provider, text, outcome, serialized>>
    /\ UNCHANGED <<handlerVars, chatVars, ytVars, rvVars, cbVars>>

DecoderNext == AdapterReturns \/ Serialize \/ Reparse

DecoderSpec == DecoderInit /\ [][DecoderNext]_vars

-----------------------------------------------------------------------------
(* rock-chat: one question, with the analysis and the image of the page as  *)
(* optional context, is passed to one provider and its text is returned.    *)

ChatApology ==
    "I apologize, but I'm having trouble processing your message right now. Please try again in a moment."

ChatBodies == {"invalid", "nomessage", "emptymessage", "message"}
ChatContexts == {"none", "results", "image", "both"}

\* The texts the provider answers with.
ChatTexts == {"Granite is an igneous rock.", "It forms from slowly cooling magma."}

\* The shapes a 2xx reply of the provider can have along the path
\* data.candidates[0].content.parts[0].text.
ChatReplyShapes ==
    {"nocandidates", "emptycandidates", "nocontent", "noparts", "emptyparts", "notext", "text"}

ChatReplies ==
    {[shape |-> s, text |-> Undef] : s \in ChatReplyShapes \ {"text"}}
        \cup {[shape |-> "text", text |-> Str(t)] : t \in ChatTexts}

\* The shapes of the body of a reply that is not 2xx.
ChatErrorShapes == {"null", "noerror", "nomessage", "message"}

\* JSON.stringify of an object literal: a member whose value is undefined is
\* left out, so Undef in the written body stands for no member.
ChatJSON(obj) == [response |-> obj.response, error |-> obj.error]

\* new Response(null, { headers: corsHeaders })
ChatPreflight ==
    [status |-> StatusOk, kind |-> "empty", response |-> Undef, error |-> Undef, cors |-> TRUE]

\* new Response(JSON.stringify({ response: chatResponse }), ...)
ChatSuccess(chatText) ==
    [status |-> StatusOk, kind |-> "json",
     response |-> ChatJSON([response |-> chatText, error |-> Undef]).response,
     error |-> ChatJSON([response |-> chatText, error |-> Undef]).error,
     cors |-> TRUE]

\* The response of the catch block.
ChatFailure(message) ==
    [status |-> StatusError, kind |-> "json",
     response |-> ChatJSON([response |-> Str(ChatApology), error |-> Str(message)]).response,
     error |-> ChatJSON([response |-> Str(ChatApology), error |-> Str(message)]).error,
     cors |-> TRUE]

\* data.candidates[0].content.parts[0].text: a TypeError where the path
\* breaks off, undefined where only the text is missing.
ChatText(reply) ==
    CASE reply.shape = "text" -> [throws |-> FALSE, value |-> reply.text, message |-> ""]
      [] reply.shape = "notext" -> [throws |-> FALSE, value |-> Undef, message |-> ""]
      [] OTHER -> [throws |-> TRUE, value |-> Undef,
                   message |-> "Cannot read properties of undefined"]

\* The message thrown for a reply that is not 2xx.
ChatErrorMessage(shape) ==
    CASE shape = "null" -> "Cannot read properties of null"
      [] shape = "message" -> "Gemini API error: quota exceeded"
      [] OTHER -> "Gemini API error: Unknown error"

ChatInit ==
    /\ chatMethod \in {"OPTIONS", "POST"}
    /\ chatBody \in ChatBodies
    /\ chatContext \in ChatContexts
    /\ chatKey \in BOOLEAN
    /\ chatPc = "recv"
    /\ chatOk = FALSE
    /\ chatCalls = 0
    /\ chatParts = 0
    /\ chatResponse = NoChatResponse
    /\ HandlerIdle /\ DecoderIdle /\ VideosIdle /\ RockVideosIdle /\ ChatBotIdle

\* A handler that reads the body before it looks at the method.
ChatReceive_readsFirst ==
    /\ chatPc = "recv"
    /\ chatPc' = "body"
    /\ UNCHANGED <<chatMethod, chatBody, chatContext, chatKey, chatOk, chatCalls,
                   chatParts, chatResponse>>
    /\ UNCHANGED <<handlerVars, decoderVars, ytVars, rvVars, cbVars>>

\* The handler is entered: a preflight is answered at once, any other
\* request waits for its body.
ChatReceive ==
    /\ chatPc = "recv"
    /\ IF chatMethod = "OPTIONS"
       THEN /\ chatPc' = "done"
            /\ chatResponse' = ChatPreflight
       ELSE /\ chatPc' = "body"
            /\ UNCHANGED chatResponse
    /\ UNCHANGED <<chatMethod, chatBody, chatContext, chatKey, chatOk, chatCalls, chatParts>>
    /\ UNCHANGED <<handlerVars, decoderVars, ytVars, rvVars, cbVars>>

\* req.json() has settled: an unreadable body, a missing message or a
\* missing key goes to the catch block; otherwise the parts are put
\* together and the one request to the provider is sent.
ChatBodyRead ==
    /\ chatPc = "body"
    /\ IF chatBody = "invalid" \/ chatBody \in {"nomessage", "emptymessage"} \/ ~chatKey
       THEN /\ chatPc' = "done"
            /\ chatResponse' =
                 ChatFailure(IF chatBody = "invalid" THEN "Unexpected token in JSON"
                             ELSE IF chatBody \in {"nomessage", "emptymessage"}
                                  THEN "No message provided"
                                  ELSE "GEMINI_API_KEY not configured")
            /\ UNCHANGED <<chatCalls, chatParts>>
       ELSE /\ chatPc' = "fetching"
            /\ chatParts' = IF chatContext \in {"image", "both"} THEN 3 ELSE 2
            /\ chatCalls' = chatCalls + 1
            /\ UNCHANGED chatResponse
    /\ UNCHANGED <<chatMethod, chatBody, chatContext, chatKey, chatOk>>
    /\ UNCHANGED <<handlerVars, decoderVars, ytVars, rvVars, cbVars>>

\* await fetch(...) settles: the network fails, or a reply with some status
\* arrives and its body is awaited.
ChatFetchSettles ==
    /\ chatPc = "fetching"
    /\ \/ /\ chatPc' = "done"
          /\ chatResponse' = ChatFailure("network error")
          /\ UNCHANGED chatOk
       \/ /\ \E ok \in BOOLEAN : chatOk' = ok
          /\ chatPc' = "reading"
          /\ UNCHANGED chatResponse
    /\ UNCHANGED <<chatMethod, chatBody, chatContext, chatKey, chatCalls, chatParts>>
    /\ UNCHANGED <<handlerVars, decoderVars, ytVars, rvVars, cbVars>>

\* await response.json() settles: the body is unreadable, the status is not
\* 2xx, or the text is taken from the reply and sent.
ChatReplyRead ==
    /\ chatPc = "reading"
    /\ chatPc' = "done"
    /\ \/ chatResponse' = ChatFailure("Unexpected end of JSON input")
       \/ /\ ~chatOk
          /\ \E shape \in ChatErrorShapes : chatResponse' = ChatFailure(ChatErrorMessage(shape))
       \/ /\ chatOk
          /\ \E reply \in ChatReplies :
                chatResponse' = IF ChatText(reply).throws
                                THEN ChatFailure(ChatText(reply).message)
                                ELSE ChatSuccess(ChatText(reply).value)
    /\ UNCHANGED <<chatMethod, chatBody, chatContext, chatKey, chatOk, chatCalls, chatParts>>
    /\ UNCHANGED <<handlerVars, decoderVars, ytVars, rvVars, cbVars>>

ChatNext == ChatReceive \/ ChatBodyRead \/ ChatFetchSettles \/ ChatReplyRead

ChatSpec == ChatInit /\ [][ChatNext]_vars

-----------------------------------------------------------------------------
(* youtube-rock-videos: a search for videos on the rock that was named.     *)

StatusBadRequest == 400

VideoBodies == {"invalid", "noquery", "nonstring", "query"}

\* The shapes of a 2xx reply of the search: no items, items of which
\* some have no videoId, and an item that is null.
VideoReplyShapes == {"noitems", "items", "nullitem"}

\* new Response(null, { headers: corsHeaders })
VideosPreflight ==
    [status |-> StatusOk, kind |-> "empty", error |-> Undef, videos |-> Undef,
     cors |-> TRUE, cached |-> FALSE]

\* The answer to a body without a usable query.
VideosBadRequest ==
    [status |-> StatusBadRequest, kind |-> "json", error |-> Str("Invalid or missing \"query\""),
     videos |-> Undef, cors |-> TRUE, cached |-> FALSE]

\* The answers with status 500: the provider's error and the catch block.
VideosFailure(message) ==
    [status |-> StatusError, kind |-> "json", error |-> Str(message),
     videos |-> Undef, cors |-> TRUE, cached |-> FALSE]

\* new Response(JSON.stringify({ videos }), ...), with Cache-Control.
VideosSuccess(list) ==
    [status |-> StatusOk, kind |-> "json", error |-> Undef, videos |-> Arr(list),
     cors |-> TRUE, cached |-> TRUE]

\* (ytData.items || []).map(...).filter(v => v.videoId && v.url)
VideosOf(shape) ==
    CASE shape = "noitems" -> [throws |-> FALSE, list |-> <<>>]
      [] shape = "items" -> [throws |-> FALSE, list |-> <<"video1", "video2">>]
      [] OTHER -> [throws |-> TRUE, list |-> <<>>]

VideosInit ==
    /\ ytMethod \in {"OPTIONS", "POST"}
    /\ ytBody \in VideoBodies
    /\ ytKey \in BOOLEAN
    /\ ytPc = "recv"
    /\ ytOk = FALSE
    /\ ytCalls = 0
    /\ ytResponse = NoVideosResponse
    /\ HandlerIdle /\ DecoderIdle /\ ChatIdle /\ RockVideosIdle /\ ChatBotIdle

\* The handler is entered: a preflight is answered at once; without the key
\* the catch block answers; otherwise the body is awaited.
VideosReceive ==
    /\ ytPc = "recv"
    /\ IF ytMethod = "OPTIONS"
       THEN /\ ytPc' = "done"
            /\ ytResponse' = VideosPreflight
       ELSE IF ~ytKey
            THEN /\ ytPc' = "done"
                 /\ ytResponse' = VideosFailure("Missing YOUTUBE_API_KEY secret")
            ELSE /\ ytPc' = "body"
                 /\ UNCHANGED ytResponse
    /\ UNCHANGED <<ytMethod, ytBody, ytKey, ytOk, ytCalls>>
    /\ UNCHANGED <<handlerVars, decoderVars, chatVars, rvVars, cbVars>>

\* req.json() has settled: an unreadable body goes to the catch block, a
\* body without a query string is answered with 400, otherwise the search
\* is sent.
VideosBodyRead ==
    /\ ytPc = "body"
    /\ CASE ytBody = "invalid" ->
              /\ ytPc' = "done"
              /\ ytResponse' = VideosFailure("Unexpected token in JSON")
              /\ UNCHANGED ytCalls
         [] ytBody \in {"noquery", "nonstring"} ->
              /\ ytPc' = "done"
              /\ ytResponse' = VideosBadRequest
              /\ UNCHANGED ytCalls
         [] OTHER ->
              /\ ytPc' = "fetching"
              /\ ytCalls' = ytCalls + 1
              /\ UNCHANGED ytResponse
    /\ UNCHANGED <<ytMethod, ytBody, ytKey, ytOk>>
    /\ UNCHANGED <<handlerVars, decoderVars, chatVars, rvVars, cbVars>>

\* await fetch(...) settles.
VideosFetchSettles ==
    /\ ytPc = "fetching"
    /\ \/ /\ ytPc' = "done"
          /\ ytResponse' = VideosFailure("network error")
          /\ UNCHANGED ytOk
       \/ /\ \E ok \in BOOLEAN : ytOk' = ok
          /\ ytPc' = "reading"
          /\ UNCHANGED ytResponse
    /\ UNCHANGED <<ytMethod, ytBody, ytKey, ytCalls>>
    /\ UNCHANGED <<handlerVars, decoderVars, chatVars, rvVars, cbVars>>

\* await ytRes.json() settles: the body is unreadable, the status is not
\* 2xx, or the items are turned into the list of videos.
VideosReplyRead ==
    /\ ytPc = "reading"
    /\ ytPc' = "done"
    /\ \/ ytResponse' = VideosFailure("Unexpected end of JSON input")
       \/ /\ ~ytOk
          /\ ytResponse' = VideosFailure("YouTube API error")
       \/ /\ ytOk
          /\ \E shape \in VideoReplyShapes :
                ytResponse' = IF VideosOf(shape).throws
                              THEN VideosFailure("Cannot read properties of null")
                              ELSE VideosSuccess(VideosOf(shape).list)
    /\ UNCHANGED <<ytMethod, ytBody, ytKey, ytOk, ytCalls>>
    /\ UNCHANGED <<handlerVars, decoderVars, chatVars, rvVars, cbVars>>

VideosNext == VideosReceive \/ VideosBodyRead \/ VideosFetchSettles \/ VideosReplyRead

-----------------------------------------------------------------------------
(* The three functions side by side: a request arrives at one of them.      *)

ServiceInit == Init \/ ChatInit \/ VideosInit

ServiceNext == Next \/ ChatNext \/ VideosNext

ServiceSpec == ServiceInit /\ [][ServiceNext]_vars

-----------------------------------------------------------------------------
(* RockVideos: the component fetches the videos for its rockName in an      *)
(* effect; the cleanup of the effect marks the fetch it started as ignored. *)

MaxRenames == 2

RockNames == {"Granite", "Basalt", "Marble"}

\* What supabase.functions.invoke can resolve with, or that it rejects.
FetchOutcomes == {"videos", "novideos", "nodata", "error", "throws"}

\* The value passed to setVideos: data?.videos || [] when there was no
\* error, [] from the catch block.
VideosFor(rock, settled) == IF settled = "videos" THEN <<rock>> ELSE <<>>

\* A continuation that writes whatever happened to its effect.
MayWrite_always(effect) == TRUE

\* if (!ignore): the continuation of a fetch writes the state only while
\* the cleanup of its effect has not run.
MayWrite(effect) == ~effect.ignore

\* The component is mounted and its effect has run for the first time:
\* setLoading(true) and the fetch for the first rockName.
RockVideosInit ==
    /\ rvMounted = TRUE
    /\ rvRockName \in RockNames
    /\ rvVideos = <<>>
    /\ rvLoading = TRUE
    /\ rvEffects = <<[rockName |-> rvRockName, ignore |-> FALSE, outcome |-> "pending"]>>
    /\ HandlerIdle /\ DecoderIdle /\ ChatIdle /\ VideosIdle /\ ChatBotIdle

\* The rockName prop changes: the cleanup of the previous effect sets its
\* ignore, and the effect runs again with a flag of its own.
Rename(name) ==
    /\ rvMounted
    /\ name # rvRockName
    /\ Len(rvEffects) <= MaxRenames
    /\ rvRockName' = name
    /\ rvLoading' = TRUE
    /\ rvEffects' = Append([rvEffects EXCEPT ![Len(rvEffects)].ignore = TRUE],
                           [rockName |-> name, ignore |-> FALSE, outcome |-> "pending"])
    /\ UNCHANGED <<rvMounted, rvVideos>>
    /\ UNCHANGED <<handlerVars, decoderVars, chatVars, ytVars, cbVars>>

\* The component is unmounted: the cleanup of the last effect runs.
Unmount ==
    /\ rvMounted
    /\ rvMounted' = FALSE
    /\ rvEffects' = [rvEffects EXCEPT ![Len(rvEffects)].ignore = TRUE]
    /\ UNCHANGED <<rvRockName, rvVideos, rvLoading>>
    /\ UNCHANGED <<handlerVars, decoderVars, chatVars, ytVars, cbVars>>

\* The invoke of the i-th effect settles and fetchVideos runs to its end:
\* setVideos in try or catch, setLoading(false) in finally, each behind the
\* flag.
VideosFetched(i, settled) ==
    /\ i \in 1..Len(rvEffects)
    /\ rvEffects[i].outcome = "pending"
    /\ rvEffects' = [rvEffects EXCEPT ![i].outcome = settled]
    /\ IF MayWrite(rvEffects[i])
       THEN /\ rvVideos' = VideosFor(rvEffects[i].rockName, settled)
            /\ rvLoading' = FALSE
       ELSE UNCHANGED <<rvVideos, rvLoading>>
    /\ UNCHANGED <<rvMounted, rvRockName>>
    /\ UNCHANGED <<handlerVars, decoderVars, chatVars, ytVars, cbVars>>

RockVideosNext ==
    \/ \E name \in RockNames : Rename(name)
    \/ Unmount
    \/ \E i \in 1..(MaxRenames + 1), settled \in FetchOutcomes : VideosFetched(i, settled)

RockVideosSpec == RockVideosInit /\ [][RockVideosNext]_vars

-----------------------------------------------------------------------------
(* ChatBot: the widget sends the text of its input to rock-chat and shows   *)
(* the answer as a message of the assistant.                                *)

MaxSends == 2

\* What the input can hold: nothing, blanks only, or a question.
Inputs == {"", "   ", "What is granite?", "Where is it found?"}

\* String.prototype.trim on the strings of the model.
trim(s) == IF s = "   " THEN "" ELSE s

\* What supabase.functions.invoke resolves with: data with a response, data
\* without one, neither data nor error, or an error (a status that is not
\* 2xx, or no answer at all).
InvokeOutcomes ==
    {[kind |-> "response", text |-> Str(t)] : t \in ChatTexts}
        \cup {[kind |-> k, text |-> Undef] : k \in {"noresponse", "nodata", "error"}}

\* A send that starts whatever the input and the state of the widget are.
SendAccepted_always(input, loading) == TRUE

\* if (!inputValue.trim() || isLoading) return;
SendAccepted(input, loading) == ~(trim(input) = "" \/ loading)

\* The widget after its first render: the greeting, an empty input, no
\* request.
ChatBotInit ==
    /\ cbInput = ""
    /\ cbLoading = FALSE
    /\ cbMessages = <<[isUser |-> FALSE, content |-> Str("Hello! I'm your geological assistant.")]>>
    /\ cbRequests = <<>>
    /\ cbSent = 0
    /\ cbToasts = 0
    /\ HandlerIdle /\ DecoderIdle /\ ChatIdle /\ VideosIdle /\ RockVideosIdle

\* onChange of the input, which is disabled while a request is pending.
setInputValue(v) ==
    /\ ~cbLoading
    /\ cbInput' = v
    /\ UNCHANGED <<cbLoading, cbMessages, cbRequests, cbSent, cbToasts>>
    /\ UNCHANGED <<handlerVars, decoderVars, chatVars, ytVars, rvVars>>

\* sendMessage up to its await: nothing when the guard returns, otherwise
\* the message of the user is appended, the input is cleared, isLoading is
\* set and the request is issued.
sendMessage ==
    /\ cbSent < MaxSends
    /\ IF SendAccepted(cbInput, cbLoading)
       THEN /\ cbMessages' = Append(cbMessages, [isUser |-> TRUE, content |-> Str(cbInput)])
            /\ cbInput' = ""
            /\ cbLoading' = TRUE
            /\ cbRequests' = Append(cbRequests, [message |-> cbInput, outcome |-> "pending",
                                                 text |-> Undef])
            /\ cbSent' = cbSent + 1
       ELSE UNCHANGED <<cbInput, cbLoading, cbMessages, cbRequests, cbSent>>
    /\ UNCHANGED cbToasts
    /\ UNCHANGED <<handlerVars, decoderVars, chatVars, ytVars, rvVars>>

\* The invoke of the i-th request settles and sendMessage runs to its end:
\* with data and no error the message of the assistant is appended,
\* otherwise the catch block shows a toast; finally isLoading is reset.
RequestSettles(i, settled) ==
    /\ i \in 1..Len(cbRequests)
    /\ cbRequests[i].outcome = "pending"
    /\ cbRequests' = [cbRequests EXCEPT ![i].outcome = settled.kind, ![i].text = settled.text]
    /\ IF settled.kind \in {"response", "noresponse"}
       THEN /\ cbMessages' = Append(cbMessages, [isUser |-> FALSE, content |-> settled.text])
            /\ UNCHANGED cbToasts
       ELSE /\ cbToasts' = cbToasts + 1
            /\ UNCHANGED cbMessages
    /\ cbLoading' = FALSE
    /\ UNCHANGED <<cbInput, cbSent>>
    /\ UNCHANGED <<handlerVars, decoderVars, chatVars, ytVars, rvVars>>

ChatBotNext ==
    \/ \E v \in Inputs : setInputValue(v)
    \/ sendMessage
    \/ \E i \in 1..MaxSends, settled \in InvokeOutcomes : RequestSettles(i, settled)

ChatBotSpec == ChatBotInit /\ [][ChatBotNext]_vars

\* A request that was issued is answered or fails: the invoke settles.
ChatBotFairSpec ==
    ChatBotSpec /\ WF_vars(\E i \in 1..MaxSends, settled \in InvokeOutcomes : RequestSettles(i, settled))

-----------------------------------------------------------------------------
(* Properties.                                                              *)

FulfilledProviders == {p \in ProviderSet : settlement[p].status = "fulfilled"}
RejectedProviders == {p \in ProviderSet : settlement[p].status = "rejected"}
SuccessCount == Cardinality(FulfilledProviders)
WithImage == method = "POST" /\ body \in {"image", "nonstring"}
SeqToSet(s) == {s[i] : i \in 1..Len(s)}

\* C1: for a request with an image all three adapters are called, and
\* combineMultipleAnalyses runs, and the response is sent, only when all
\* three promises have settled; a call that was started is still carried to
\* its own settlement whatever its siblings did.
C1_JoinAfterAllSettled ==
    /\ (WithImage /\ pc \in {"awaitAll", "done"}) => \A p \in ProviderSet : invoked[p] = 1
    /\ (combined.state # "none" \/ (WithImage /\ responses > 0)) =>
          \A p \in ProviderSet :
              /\ phase[p] = "settled"
              /\ settlement[p].status \in {"fulfilled", "rejected"}

\* The response was sent although the first provider failed on the network
\* and the other two answered.
C1_Witness ==
    /\ pc = "done" /\ combined.state = "returned"
    /\ settlement["Gemini"] = Rejected("network error")
    /\ settlement["OpenAI"].status = "fulfilled"
    /\ settlement["Anthropic"].status = "fulfilled"
    /\ \A p \in ProviderSet : calls[p] = 1

\* C2: a request that is no preflight, and whose provider calls all settle,
\* is eventually answered with a response that carries a record, and no
\* request is answered more than once.
C2_AnsweredExactlyOnce ==
    /\ [](responses <= 1)
    /\ (method = "POST") ~>
          (pc = "done" /\ responses = 1 /\ response.kind \in {"record", "error"}
             /\ response.record.confidence.k = "num")

\* Answered once, from one rejected, one placeholder and one decoded reply.
C2_Witness ==
    /\ pc = "done" /\ responses = 1 /\ response.kind = "record"
    /\ settlement["Gemini"].status = "rejected"
    /\ settlement["OpenAI"] = Fulfilled(OpenAIPlaceholder)
    /\ settlement["Anthropic"].status = "fulfilled"
    /\ settlement["Anthropic"].value.rockName = Str("Basalt")

\* C3: a failing adapter rejects its own promise and nothing else: the step
\* in which it rejects sends no response and leaves the promises of the
\* other adapters as they were (unless they are started in that very
\* step); the catch block never reports an adapter's error; and the record
\* that is returned is built from exactly the fulfilled providers.
C3_RejectionStaysLocal ==
    /\ [](response.error \notin AdapterErrors)
    /\ []((pc = "done" /\ combined.state = "returned") =>
             SeqToSet(combined.rec.analysisSource.a) = FulfilledProviders)
    /\ [][\A p \in ProviderSet :
            (settlement[p].status # "rejected" /\ settlement'[p].status = "rejected") =>
               /\ response' = response
               /\ responses' = responses
               /\ combined' = combined
               /\ \A q \in ProviderSet \ {p} :
                     \/ settlement'[q] = settlement[q] /\ phase'[q] = phase[q]
                     \/ phase[q] = "idle"]_vars

\* Two adapters failed, for a missing key and for a non-2xx status, and the
\* request was answered with status 200 from the third.
C3_Witness ==
    /\ pc = "done" /\ response.status = StatusOk
    /\ settlement["Gemini"] = Rejected(KeyMissing("Gemini"))
    /\ settlement["OpenAI"] = Rejected("API error: status")
    /\ settlement["Anthropic"].status = "fulfilled"
    /\ combined.rec.analysisSource.a = <<"Anthropic">>

\* The confidence a fulfilled record counts with.
ConfidenceOf(p) ==
    LET c == settlement[p].value.confidence
    IN IF c.k = "num" THEN c.n ELSE 0

\* The fulfilled records no other fulfilled record exceeds in confidence.
Anchors ==
    {p \in FulfilledProviders : \A q \in FulfilledProviders : ConfidenceOf(q) <= ConfidenceOf(p)}

Answered200 == pc = "done" /\ response.kind = "record"
Merged == pc = "done" /\ combined.state = "returned" /\ SuccessCount >= 1

PlaceholderTexts ==
    {"Analysis Failed", "Unknown Rock", "Unknown", "All AI analyses failed",
     "Unable to determine formation process", "Please try uploading a clearer image.",
     "Please try uploading a clearer image for better identification."}

\* C4: when all three settlements are rejected, the record in the response
\* has confidence 0, names no provider and holds placeholder texts only.
C4_TotalFailureRecord ==
    (pc = "done" /\ method = "POST" /\ body = "image" /\ RejectedProviders = ProviderSet) =>
        /\ response.kind = "record"
        /\ response.record.confidence = Num(0)
        /\ response.record.analysisSource.a = <<>>
        /\ \A f \in {"rockName", "type", "hardness", "formation", "funFact"} :
              /\ response.record[f].k = "str"
              /\ response.record[f].s \in PlaceholderTexts

\* C5: the confidence of a 200 response tells total failure from success:
\* it is above 0 when some provider was fulfilled, and 0 when none was.
C5_ConfidenceTellsTotalFailure ==
    (Answered200 /\ body = "image") =>
        /\ SuccessCount >= 1 => response.record.confidence.n > 0
        /\ SuccessCount = 0 => response.record.confidence.n = 0

\* C6: a request with a non-empty image is answered with status 200
\* whatever the providers do or return, and only a request without a usable
\* image field is answered with another status.
C6_ImageAlways200 ==
    pc = "done" =>
        /\ WithImage => response.status = StatusOk
        /\ response.status # StatusOk => body \in {"invalid", "noimage", "emptyimage"}

\* What a fulfilled record reports for a field, if it reports a value.
Reports(p, f) == Truthy(settlement[p].value[f])
Spelling(p, f) == toLowerCase(settlement[p].value[f].s)

\* The fulfilled records whose value of the field is also reported, in some
\* spelling, by another fulfilled record.
Agreeing(f) ==
    {p \in FulfilledProviders :
        /\ Reports(p, f)
        /\ \E q \in FulfilledProviders \ {p} : Reports(q, f) /\ Spelling(q, f) = Spelling(p, f)}

\* C7: for type and for rockName, a value that more than one fulfilled
\* record reports (case-insensitively) is the value of the result, in the
\* spelling of one of those records, whatever the anchor reported; without
\* such a value the result has the value of an anchor.
C7_CategoricalConsensus ==
    Merged =>
        \A f \in {"type", "rockName"} :
            IF Agreeing(f) # {}
            THEN \E p \in Agreeing(f) : combined.rec[f] = settlement[p].value[f]
            ELSE \E p \in Anchors : combined.rec[f] = settlement[p].value[f]

\* Types Igneous, Sedimentary, Igneous with confidences 60, 90, 50: the
\* result is Igneous although the anchor said Sedimentary.
C7_Witness ==
    /\ Merged
    /\ \A p \in ProviderSet : settlement[p].status = "fulfilled"
    /\ settlement["Gemini"].value.type = Str("Igneous")
    /\ settlement["OpenAI"].value.type = Str("Sedimentary")
    /\ settlement["Anthropic"].value.type = Str("Igneous")
    /\ settlement["Gemini"].value.confidence = Num(MidConfidence)
    /\ settlement["OpenAI"].value.confidence = Num(HighConfidence)
    /\ settlement["Anthropic"].value.confidence = Num(LowConfidence)
    /\ combined.rec.type = Str("Igneous")
    /\ combined.rec.hardness = HardnessOf("OpenAI")

\* C8: hardness, formation, commonLocations and funFact of the result are
\* together those of one fulfilled record that no other exceeds in
\* confidence, unchanged, also when the vote on rockName or type went to
\* another record.
C8_AnchorFields ==
    Merged =>
        \E p \in Anchors :
            /\ combined.rec.hardness = settlement[p].value.hardness
            /\ combined.rec.formation = settlement[p].value.formation
            /\ combined.rec.commonLocations = settlement[p].value.commonLocations
            /\ combined.rec.funFact = settlement[p].value.funFact

\* The last provider alone has the highest confidence and is outvoted on the
\* name: the free-text fields are its own, the name is not.
C8_Witness ==
    /\ Merged
    /\ Anchors = {"Anthropic"}
    /\ SuccessCount = 3
    /\ combined.rec.hardness = HardnessOf("Anthropic")
    /\ combined.rec.funFact = FunFactOf("Anthropic")
    /\ combined.rec.rockName # settlement["Anthropic"].value.rockName

\* The composition list a fulfilled record contributes.
Reported(p) ==
    LET c == settlement[p].value.composition
    IN IF c.k = "arr" THEN c.a ELSE <<>>

\* The fulfilled records in an order of non-increasing confidence.
ConfidenceOrders ==
    {ord \in [1..SuccessCount -> FulfilledProviders] :
        /\ \A i, j \in 1..SuccessCount : i # j => ord[i] # ord[j]
        /\ \A i, j \in 1..SuccessCount : i < j => ConfidenceOf(ord[i]) >= ConfidenceOf(ord[j])}

RECURSIVE Concatenation(_, _)
Concatenation(ord, i) ==
    IF i > Len(ord) THEN <<>> ELSE Reported(ord[i]) \o Concatenation(ord, i + 1)

FirstIndex(list, e) ==
    CHOOSE i \in 1..Len(list) : list[i] = e /\ \A h \in 1..(i - 1) : list[h] # e

\* merged holds the first entries of list, each once, in the order in which
\* they first occur, up to the limit.
IsBoundedUnion(merged, list, limit) ==
    /\ \A i, j \in 1..Len(merged) : i # j => merged[i] # merged[j]
    /\ SeqToSet(merged) \subseteq SeqToSet(list)
    /\ Len(merged) = IF Cardinality(SeqToSet(list)) < limit
                     THEN Cardinality(SeqToSet(list)) ELSE limit
    /\ \A i, j \in 1..Len(merged) :
          i < j => FirstIndex(list, merged[i]) < FirstIndex(list, merged[j])
    /\ \A e \in SeqToSet(list) :
          (\E i \in 1..Len(merged) : FirstIndex(list, e) < FirstIndex(list, merged[i]))
             => e \in SeqToSet(merged)

\* C9: the composition of the result is the concatenation of the
\* composition lists of all fulfilled records (taken by non-increasing
\* confidence), every entry kept once at its first place and spelled as
\* reported, cut after 5 entries.
C9_CompositionUnion ==
    Merged =>
        /\ combined.rec.composition.k = "arr"
        /\ \E ord \in ConfidenceOrders :
              IsBoundedUnion(combined.rec.composition.a, Concatenation(ord, 1), MaxComposition)

\* Six different entries were reported, one of them twice and one in two
\* spellings: five are kept.
C9_Witness ==
    /\ Merged
    /\ SuccessCount = 3
    /\ Len(combined.rec.composition.a) = MaxComposition
    /\ \E ord \in ConfidenceOrders :
          /\ Cardinality(SeqToSet(Concatenation(ord, 1))) > MaxComposition
          /\ Len(Concatenation(ord, 1)) > Cardinality(SeqToSet(Concatenation(ord, 1)))
    /\ {"Quartz", "quartz"} \subseteq
          UNION {SeqToSet(Reported(p)) : p \in FulfilledProviders}

\* The integer nearest to sum / count, halves upwards.
Nearest(sum, count) ==
    CHOOSE r \in (0 - 200)..200 :
        2 * count * r - count <= 2 * sum /\ 2 * sum < 2 * count * r + count

RECURSIVE SumOver(_)
SumOver(ps) ==
    IF ps = {} THEN 0
    ELSE LET p == CHOOSE q \in ps : TRUE IN ConfidenceOf(p) + SumOver(ps \ {p})

\* C10: with at least one fulfilled record, the confidence in the response
\* is min(round(mean of their confidences) + 10, 95).
C10_ResponseConfidence ==
    (Answered200 /\ SuccessCount >= 1) =>
        response.record.confidence =
            Num(IF Nearest(SumOver(FulfilledProviders), SuccessCount) + ConfidenceBoost
                     < ConfidenceCeiling
                THEN Nearest(SumOver(FulfilledProviders), SuccessCount) + ConfidenceBoost
                ELSE ConfidenceCeiling)

\* C11: in every response that carries a record the confidence is a number
\* from 0 to 95, whatever confidences the provider records carry.
C11_ConfidenceBound ==
    (pc = "done" /\ response.kind \in {"record", "error"}) =>
        /\ response.record.confidence.k = "num"
        /\ 0 <= response.record.confidence.n
        /\ response.record.confidence.n <= ConfidenceCeiling

\* The fulfilled providers in the order of their settlements in the array
\* of the join: Gemini, then OpenAI, then Anthropic.
FulfilledInOrder == SelectSeq(Providers, LAMBDA p : p \in FulfilledProviders)

\* C12: with at least one fulfilled provider, analysisSource names exactly
\* the fulfilled providers, each once, in the order Gemini, OpenAI,
\* Anthropic, whatever confidences their records carry.
C12_ProvenanceOrder ==
    Merged => combined.rec.analysisSource.a = FulfilledInOrder

\* What the handler answers when the join hands it the array results.
ResponseFor(results) ==
    LET c == combineMultipleAnalyses(Destructured(results))
    IN IF c.state = "threw" THEN ErrorResponse("item.toLowerCase is not a function")
       ELSE RecordResponse(Result(c.rec))

\* C13: the record that is tagged with a provider is the one that
\* provider's adapter produced (every tag names a fulfilled provider, the
\* tags are listed by the confidences of the tagged providers' own records,
\* and the free-text fields are those of the first tagged provider's own
\* record), and the response is the same for every order in which the
\* three calls can have completed.
C13_SettlementBelongsToAdapter ==
    /\ Merged =>
          LET src == combined.rec.analysisSource.a
          IN /\ \A i \in 1..Len(src) : src[i] \in FulfilledProviders
             /\ \A i, j \in 1..Len(src) :
                   i < j => ConfidenceOf(src[i]) >= ConfidenceOf(src[j])
             /\ combined.rec.hardness = settlement[src[1]].value.hardness
             /\ combined.rec.formation = settlement[src[1]].value.formation
             /\ combined.rec.funFact = settlement[src[1]].value.funFact
    /\ (pc = "done" /\ combined.state # "none") =>
          \A results \in {SettledResults(settlement, o) : o \in CompletionOrders(calls)} :
              response = ResponseFor(results)

\* All three outbound calls were issued, so that they can complete in any of
\* the six orders; the first failed on the network and the last has the
\* record of the highest confidence.
C13_Witness ==
    /\ pc = "done" /\ combined.state = "returned"
    /\ Cardinality(CompletionOrders(calls)) = 6
    /\ settlement["Gemini"] = Rejected("network error")
    /\ settlement["OpenAI"].status = "fulfilled"
    /\ settlement["Anthropic"].status = "fulfilled"
    /\ combined.rec.analysisSource.a = <<"Anthropic", "OpenAI">>
    /\ combined.rec.hardness = HardnessOf("Anthropic")

\* C14: for a request that carries an image every adapter is called exactly
\* once and issues at most one outbound call; a promise that has settled
\* keeps its settlement, and a failed adapter is not called or sent out
\* again; the join hands the settlements of all three promises on, and
\* combineMultipleAnalyses runs on three settled ones.
C14_OneSettlementPerAdapter ==
    /\ [](\A p \in ProviderSet : invoked[p] <= 1 /\ calls[p] <= 1 /\ calls[p] <= invoked[p])
    /\ []((WithImage /\ pc \in {"awaitAll", "done"}) => \A p \in ProviderSet : invoked[p] = 1)
    /\ [](combined.state # "none" =>
             \A o \in CompletionOrders(calls) :
                 /\ Len(SettledResults(settlement, o)) = 3
                 /\ \A i \in 1..3 : SettledResults(settlement, o)[i].status # "pending")
    /\ [][\A p \in ProviderSet :
            settlement[p].status # "pending" =>
               /\ settlement'[p] = settlement[p]
               /\ phase'[p] = phase[p]
               /\ invoked'[p] = invoked[p]
               /\ calls'[p] = calls[p]]_vars

\* The request was answered after one call failed on the network, one was
\* answered with a non-2xx status and one was never sent for want of a key:
\* each adapter was called once and none was sent out twice.
C14_Witness ==
    /\ pc = "done"
    /\ settlement["Gemini"] = Rejected("network error")
    /\ settlement["OpenAI"] = Rejected("API error: status")
    /\ settlement["Anthropic"] = Rejected(KeyMissing("Anthropic"))
    /\ invoked = [p \in ProviderSet |-> 1]
    /\ calls = [p \in ProviderSet |-> IF p = "Anthropic" THEN 0 ELSE 1]

RecordFields ==
    {"rockName", "type", "composition", "hardness", "formation", "commonLocations",
     "funFact", "confidence", "visualFeatures", "analysisSource"}

\* C16: the record of a 200 response defines every field, for every number
\* of fulfilled providers and whatever their records leave out: no field is
\* undefined or null.
C16_StructurallyComplete ==
    Answered200 =>
        \A f \in RecordFields : response.record[f].k \notin {"undef", "null"}

\* The only fulfilled provider returned an object without any of the
\* fields: the response carries the defaults.
C16_Witness ==
    /\ Answered200
    /\ SuccessCount = 1
    /\ \E p \in FulfilledProviders : settlement[p].value = EmptyObject
    /\ response.record.rockName = Str("Unknown Rock")
    /\ response.record.hardness = Str("Unknown")
    /\ response.record.composition = Arr(<<>>)
    /\ response.record.confidence = Num(ConfidenceBoost)

\* The text has no "{...}" substring that is valid JSON: there is no text,
\* or no "{" with a "}" after it, or what lies from the first "{" to the
\* last "}" does not parse.
Undecodable(txt) ==
    \/ ~txt.has
    \/ txt.chars = <<>>
    \/ ~match(txt.chars).found
    \/ ~IsJSON(txt.chars, match(txt.chars))

PlaceholderConfidence(p) ==
    IF p = "Gemini" THEN GeminiPlaceholderConfidence
    ELSE IF p = "OpenAI" THEN OpenAIPlaceholderConfidence
    ELSE AnthropicPlaceholderConfidence

\* C17: when the text of a 2xx reply is missing, has no "{...}" substring or
\* has one that is no valid JSON, the adapter's promise is fulfilled with
\* the adapter's own placeholder record, complete and with confidence 50
\* (Gemini) or 25 (OpenAI, Anthropic); it is not rejected.
C17_ParseFailureDegrades ==
    (outcome.status # "pending" /\ Undecodable(text)) =>
        /\ outcome.status = "fulfilled"
        /\ outcome.value = Placeholder(provider)
        /\ outcome.value.confidence = Num(PlaceholderConfidence(provider))
        /\ outcome.value.confidence.n \in OpenAIPlaceholderConfidence..GeminiPlaceholderConfidence
        /\ \A i \in 1..Len(FieldOrder) :
              outcome.value[FieldOrder[i]].k \notin {"undef", "null"}

\* The reply holds two objects: from the first "{" to the last "}" it is no
\* JSON, and the OpenAI adapter returned its placeholder.
C17_Witness ==
    /\ provider = "OpenAI"
    /\ text = Text(<<Open>> \o GraniteMembers \o <<Close, Prose, Open, Close>>)
    /\ outcome = Fulfilled(OpenAIPlaceholder)
    /\ outcome.value.confidence = Num(OpenAIPlaceholderConfidence)

\* C18: when the text decodes to an object, the record the adapter returns
\* has every expected field with its expected type: rockName, type,
\* hardness, formation and funFact strings, composition, commonLocations
\* and visualFeatures lists, confidence a number from 0 to 100.
C18_FieldCoercion ==
    (outcome.status = "fulfilled" /\ ~Undecodable(text)) =>
        /\ \A f \in {"rockName", "type", "hardness", "formation", "funFact"} :
              outcome.value[f].k = "str"
        /\ \A f \in {"composition", "commonLocations", "visualFeatures"} :
              outcome.value[f].k = "arr"
        /\ outcome.value.confidence.k = "num"
        /\ outcome.value.confidence # Infinity
        /\ outcome.value.confidence.n \in 0..100

\* C19: the record an adapter returned, written as JSON and decoded again
\* (from the first "{" to the last "}"), is the record that was returned.
C19_RoundTrip ==
    reparsed.status # "pending" =>
        /\ reparsed.status = "fulfilled"
        /\ reparsed.value = outcome.value

\* The settlements with every rejection stripped of its reason.
WithoutReasons ==
    [p \in ProviderSet |->
        IF settlement[p].status = "rejected" THEN Rejected("") ELSE settlement[p]]

\* min(round(mean of the fulfilled records' confidences) + 10, 95)
ExpectedConfidence ==
    Min(Nearest(SumOver(FulfilledProviders), SuccessCount) + ConfidenceBoost,
        ConfidenceCeiling)

\* One provider rejected, two fulfilled with the same type and the
\* compositions [Quartz] and [Quartz, Mica].
PartialFailure ==
    /\ Cardinality(RejectedProviders) = 1
    /\ SuccessCount = 2
    /\ \E p, q \in FulfilledProviders :
          /\ settlement[p].value.composition = Arr(<<"Quartz">>)
          /\ settlement[q].value.composition = Arr(<<"Quartz", "Mica">>)
          /\ settlement[p].value.type.k = "str"
          /\ settlement[p].value.type = settlement[q].value.type

\* C20: a rejected provider contributes nothing.  The response is the one
\* that the same settlements give with the reasons of the rejections
\* removed; the merged record names the fulfilled providers only and its
\* confidence is taken over the fulfilled records only.  With one provider
\* rejected and two fulfilled with the same type and compositions [Quartz]
\* and [Quartz, Mica], the merged record has that type, composition
\* [Quartz, Mica], the two providers as its sources and confidence
\* min(round(mean of the two) + 10, 95).
C20_RejectedContributesNothing ==
    /\ (pc = "done" /\ combined.state # "none") =>
          response = ResponseFor(SettledResults(WithoutReasons, Providers))
    /\ Merged =>
          /\ SeqToSet(combined.rec.analysisSource.a) = FulfilledProviders
          /\ Len(combined.rec.analysisSource.a) = SuccessCount
          /\ combined.rec.confidence = Num(ExpectedConfidence)
    /\ (Merged /\ PartialFailure) =>
          /\ \E p \in FulfilledProviders : combined.rec.type = settlement[p].value.type
          /\ combined.rec.composition = Arr(<<"Quartz", "Mica">>)

\* Gemini failed on the network, OpenAI said [Quartz] with confidence 90 and
\* Anthropic [Quartz, Mica] with confidence 60, both Igneous.
C20_Witness ==
    /\ Merged /\ PartialFailure
    /\ settlement["Gemini"] = Rejected("network error")
    /\ settlement["OpenAI"].value.composition = Arr(<<"Quartz">>)
    /\ settlement["OpenAI"].value.confidence = Num(HighConfidence)
    /\ settlement["Anthropic"].value.composition = Arr(<<"Quartz", "Mica">>)
    /\ settlement["Anthropic"].value.confidence = Num(MidConfidence)
    /\ combined.rec.type = Str("Igneous")
    /\ combined.rec.composition = Arr(<<"Quartz", "Mica">>)
    /\ combined.rec.analysisSource.a = <<"OpenAI", "Anthropic">>
    /\ combined.rec.confidence = Num(ExpectedConfidence)
    /\ response.record.confidence = combined.rec.confidence

\* C21: a request whose body is no JSON, or has no image or an empty one,
\* invokes no adapter and is answered with a status other than 200 and a
\* body that holds an error string and a complete record: every field of
\* the record defined, confidence 0.
C21_InputError ==
    (pc = "done" /\ method = "POST" /\ body \in {"invalid", "noimage", "emptyimage"}) =>
        /\ \A p \in ProviderSet : invoked[p] = 0 /\ calls[p] = 0
        /\ response.status # StatusOk
        /\ response.kind = "error"
        /\ response.error # ""
        /\ response.record.confidence = Num(0)
        /\ \A f \in RecordFields : response.record[f].k \notin {"undef", "null"}

\* C23: for every set of configured keys and a request with an image, a
\* provider without key is rejected for that reason and makes no outbound
\* call, every provider with a key makes its call whatever keys the others
\* lack, and the merged record names exactly the providers that were
\* fulfilled, all of them among those with a key.
C23_AnySubsetOfKeys ==
    (method = "POST" /\ body = "image" /\ pc \in {"awaitAll", "done"}) =>
        /\ \A p \in ProviderSet \ keys :
              /\ settlement[p] = Rejected(KeyMissing(p))
              /\ calls[p] = 0
        /\ \A p \in keys : calls[p] = 1 /\ invoked[p] = 1
        /\ Merged =>
              /\ SeqToSet(combined.rec.analysisSource.a) = FulfilledProviders
              /\ FulfilledProviders \subseteq keys
              /\ response.record.analysisSource = combined.rec.analysisSource
        /\ (pc = "done" /\ combined.state = "returned" /\ SuccessCount = 0) =>
              response.record.analysisSource = Joined("No successful analysis", <<>>)

\* Only the OpenAI key is set: the other two made no call, OpenAI's reply
\* was decoded and the response is built from it.
C23_Witness ==
    /\ pc = "done" /\ keys = {"OpenAI"} /\ body = "image"
    /\ calls = [p \in ProviderSet |-> IF p = "OpenAI" THEN 1 ELSE 0]
    /\ settlement["OpenAI"].status = "fulfilled"
    /\ settlement["OpenAI"].value.rockName = Str("Basalt")
    /\ response.status = StatusOk
    /\ response.record.rockName = Str("Basalt")
    /\ response.record.analysisSource.a = <<"OpenAI">>

\* The fulfilled providers that returned their placeholder, and those that
\* returned a decoded object.
PlaceholderProviders == {p \in FulfilledProviders : settlement[p].value = Placeholder(p)}
DecodedProviders == FulfilledProviders \ PlaceholderProviders

\* What combineMultipleAnalyses returns for the decoded records alone.
DecodedAlone ==
    combineMultipleAnalyses(
        [p \in ProviderSet |->
            IF p \in PlaceholderProviders THEN Rejected("") ELSE settlement[p]])

\* C25: when some providers returned a decoded record (with a type and a
\* name, and a confidence above every placeholder's) and the others a
\* placeholder, type and rockName of the merged record are those that the
\* decoded records alone give.
C25_PlaceholdersDoNotWin ==
    (Merged /\ DecodedProviders # {} /\ PlaceholderProviders # {}
       /\ RejectedProviders = {}
       /\ \A p \in DecodedProviders :
             /\ Reports(p, "type") /\ Reports(p, "rockName")
             /\ ConfidenceOf(p) > GeminiPlaceholderConfidence) =>
        /\ combined.rec.type = DecodedAlone.rec.type
        /\ combined.rec.rockName = DecodedAlone.rec.rockName

\* C26: when Gemini, OpenAI and Anthropic return the compositions
\* [Quartz, Mica], [Mica, Feldspar] and [Quartz], the merged composition is
\* [Quartz, Mica, Feldspar] whatever confidences the three records carry.
C26_OrderIgnoresConfidence ==
    (Merged
       /\ SuccessCount = 3
       /\ settlement["Gemini"].value.composition = Arr(<<"Quartz", "Mica">>)
       /\ settlement["OpenAI"].value.composition = Arr(<<"Mica", "Feldspar">>)
       /\ settlement["Anthropic"].value.composition = Arr(<<"Quartz">>)) =>
        combined.rec.composition = Arr(<<"Quartz", "Mica", "Feldspar">>)

\* The anchor the dispatch order picks among the fulfilled records of the
\* highest confidence: Gemini before OpenAI before Anthropic.
FirstAnchor == CHOOSE p \in Anchors : \A q \in Anchors : IndexOf(p) <= IndexOf(q)

\* C27: the free-text fields of the merged record are those of the first
\* record in dispatch order among the fulfilled records that share the
\* highest confidence.
C27_AnchorTieBreak ==
    Merged =>
        /\ combined.rec.hardness = settlement[FirstAnchor].value.hardness
        /\ combined.rec.formation = settlement[FirstAnchor].value.formation
        /\ combined.rec.commonLocations = settlement[FirstAnchor].value.commonLocations
        /\ combined.rec.funFact = settlement[FirstAnchor].value.funFact
        /\ combined.rec.analysisSource.a[1] = FirstAnchor

\* OpenAI and Anthropic share the highest confidence and Gemini is below:
\* the free-text fields are OpenAI's.
C27_Witness ==
    /\ Merged
    /\ Anchors = {"OpenAI", "Anthropic"}
    /\ SuccessCount = 3
    /\ ConfidenceOf("Gemini") = LowConfidence
    /\ ConfidenceOf("OpenAI") = HighConfidence
    /\ combined.rec.hardness = HardnessOf("OpenAI")
    /\ combined.rec.funFact = FunFactOf("OpenAI")
    /\ combined.rec.funFact # settlement["Anthropic"].value.funFact

\* The fulfilled records without a confidence field.
Unrated == {p \in FulfilledProviders : settlement[p].value.confidence.k = "undef"}

\* C28: a fulfilled record without confidence counts as 0 in the mean and
\* in the divisor, and as 0 when the anchor is chosen: the merged
\* confidence is min(round(sum / k) + 10, 95) with k the number of all
\* fulfilled records, and the record is not the anchor while another
\* record has a positive confidence.
C28_AbsentConfidenceIsZero ==
    (Merged /\ Unrated # {}) =>
        /\ combined.rec.confidence = Num(ExpectedConfidence)
        /\ (\E q \in FulfilledProviders : ConfidenceOf(q) > 0) =>
              /\ combined.rec.analysisSource.a[1] \notin Unrated
              /\ FirstAnchor \notin Unrated
              /\ combined.rec.funFact = settlement[FirstAnchor].value.funFact

\* Gemini's record has no confidence, OpenAI's has 60 and Anthropic was
\* rejected: the merged confidence is round(60 / 2) + 10 and the anchor is
\* OpenAI's record.
C28_Witness ==
    /\ Merged
    /\ Unrated = {"Gemini"}
    /\ settlement["Gemini"].value.rockName = Str("Granite")
    /\ settlement["OpenAI"].status = "fulfilled"
    /\ settlement["OpenAI"].value.confidence = Num(MidConfidence)
    /\ settlement["Anthropic"].status = "rejected"
    /\ combined.rec.confidence = Num(RoundedMean(MidConfidence, 2) + ConfidenceBoost)
    /\ combined.rec.hardness = HardnessOf("OpenAI")

\* C22: on each of the three functions a preflight is answered without the
\* body being awaited and without an outbound call, with the empty
\* response, and every response any of them sends carries the
\* cross-origin headers.
C22_CorsEverywhere ==
    /\ method = "OPTIONS" =>
          /\ pc \in {"recv", "done"}
          /\ \A p \in ProviderSet : invoked[p] = 0 /\ calls[p] = 0
          /\ pc = "done" => response = PreflightResponse
    /\ chatMethod = "OPTIONS" =>
          /\ chatPc \in {"recv", "done"}
          /\ chatCalls = 0
          /\ chatPc = "done" => chatResponse = ChatPreflight
    /\ ytMethod = "OPTIONS" =>
          /\ ytPc \in {"recv", "done"}
          /\ ytCalls = 0
          /\ ytPc = "done" => ytResponse = VideosPreflight
    /\ pc = "done" => response.cors
    /\ chatPc = "done" => chatResponse.cors
    /\ ytPc = "done" => ytResponse.cors

\* rock-chat has answered a preflight whose body could not even have been
\* read and for which it has no key.
C22_Witness ==
    /\ chatMethod = "OPTIONS"
    /\ chatBody = "invalid"
    /\ ~chatKey
    /\ chatPc = "done"
    /\ chatResponse = ChatPreflight
    /\ chatResponse.cors

\* The answers of rock-chat that come from the catch block.
ChatFailed == chatResponse.status = StatusError

\* C24: rock-chat answers every request that is no preflight with a JSON
\* body that holds a string under `response`: the text of the provider
\* with status 200, the apology together with an `error` string on a
\* failure; it sends at most one request to the provider and none when the
\* message is missing.
C24_AlwaysResponseString ==
    /\ chatCalls <= 1
    /\ chatBody # "message" => chatCalls = 0
    /\ (chatPc = "done" /\ chatMethod # "OPTIONS") =>
          /\ chatResponse.kind = "json"
          /\ chatResponse.response.k = "str"
          /\ ChatFailed => /\ chatResponse.response = Str(ChatApology)
                           /\ chatResponse.error.k = "str"
          /\ ~ChatFailed => /\ chatResponse.status = StatusOk
                            /\ chatResponse.response.s \in ChatTexts
                            /\ chatResponse.error = Undef
          /\ (chatBody # "message" \/ ~chatKey) => ChatFailed

\* The last effect that ran, and the earlier ones.
LatestEffect == rvEffects[Len(rvEffects)]
IsStale(i) == i < Len(rvEffects) \/ ~rvMounted
Settles(i) == i <= Len(rvEffects) /\ rvEffects[i].outcome = "pending" /\ rvEffects'[i].outcome # "pending"

\* C29: the settlement of a fetch whose rockName has since changed, or
\* whose component is unmounted, writes neither videos nor loading, in
\* whatever order the fetches settle; and while the component is mounted,
\* once the fetch of the latest effect has settled, loading is false and
\* videos holds the result of that fetch, which is empty on a failure.
C29_NoStaleResult ==
    /\ [][\A i \in 1..(MaxRenames + 1) :
             (Len(rvEffects') = Len(rvEffects) /\ Settles(i) /\ IsStale(i)) =>
                 (rvVideos' = rvVideos /\ rvLoading' = rvLoading)]_vars
    /\ []((rvMounted /\ LatestEffect.outcome # "pending") =>
             /\ rvLoading = FALSE
             /\ rvVideos = VideosFor(LatestEffect.rockName, LatestEffect.outcome)
             /\ LatestEffect.rockName = rvRockName
             /\ LatestEffect.outcome # "videos" => rvVideos = <<>>)

\* rockName went from Granite to Basalt, the fetch for Basalt gave its
\* videos first and the fetch for Granite gave its videos after that: the
\* videos shown are still those for Basalt.
C29_Witness ==
    /\ rvMounted
    /\ Len(rvEffects) = 2
    /\ rvEffects[1] = [rockName |-> "Granite", ignore |-> TRUE, outcome |-> "videos"]
    /\ rvEffects[2] = [rockName |-> "Basalt", ignore |-> FALSE, outcome |-> "videos"]
    /\ rvVideos = <<"Basalt">>
    /\ rvLoading = FALSE

\* The requests of the widget by their state, and its messages by sender.
InFlight == {i \in 1..Len(cbRequests) : cbRequests[i].outcome = "pending"}
Succeeded == {i \in 1..Len(cbRequests) : cbRequests[i].outcome \in {"response", "noresponse"}}
Failed == {i \in 1..Len(cbRequests) : cbRequests[i].outcome \in {"nodata", "error"}}
UserMessages == SelectSeq(cbMessages, LAMBDA m : m.isUser)
BotMessages == SelectSeq(Tail(cbMessages), LAMBDA m : ~m.isUser)

\* C30: a request is issued only from a state in which isLoading is false
\* and the input is not blank, and in that step the message of the user is
\* appended and isLoading is set; a request that settles appends one
\* message of the assistant when it succeeded and none when it failed,
\* and resets isLoading; so the messages of the assistant are as many as
\* the requests that succeeded, at most one request is in flight, isLoading
\* is true exactly while one is, and isLoading always returns to false.
C30_SendMessage ==
    /\ [][Len(cbRequests') # Len(cbRequests) =>
             /\ ~cbLoading /\ trim(cbInput) # ""
             /\ cbMessages' = Append(cbMessages, [isUser |-> TRUE, content |-> Str(cbInput)])
             /\ cbLoading'
             /\ Len(cbRequests') = Len(cbRequests) + 1]_vars
    /\ [][\A i \in 1..MaxSends :
             (i \in InFlight /\ Len(cbRequests') = Len(cbRequests) /\ cbRequests'[i].outcome # "pending") =>
                 /\ ~cbLoading'
                 /\ IF cbRequests'[i].outcome \in {"response", "noresponse"}
                    THEN /\ Len(cbMessages') = Len(cbMessages) + 1
                         /\ SubSeq(cbMessages', 1, Len(cbMessages)) = cbMessages
                         /\ ~cbMessages'[Len(cbMessages')].isUser
                         /\ cbMessages'[Len(cbMessages')].content = cbRequests'[i].text
                    ELSE cbMessages' = cbMessages]_vars
    /\ [](/\ Cardinality(InFlight) <= 1
          /\ cbLoading <=> InFlight # {}
          /\ Len(UserMessages) = Len(cbRequests)
          /\ Len(BotMessages) = Cardinality(Succeeded)
          /\ cbToasts = Cardinality(Failed))
    /\ (cbLoading ~> ~cbLoading)

\* Two questions were sent one after the other: the first was answered
\* and the second failed, so there are two messages of the user, one of the
\* assistant after the greeting, one toast, and the widget is unlocked.
C30_Witness ==
    /\ Len(cbRequests) = 2
    /\ cbRequests[1].outcome = "response"
    /\ cbRequests[2].outcome = "error"
    /\ Len(UserMessages) = 2
    /\ Len(BotMessages) = 1
    /\ BotMessages[1].content = cbRequests[1].text
    /\ cbToasts = 1
    /\ ~cbLoading
    /\ InFlight = {}

====
